---- MODULE Spec2Model ----
(***************************************************************************)
(* A model of arangodb::Transaction (the transaction and query-execution   *)
(* facade): the transaction lifecycle (construction, begin, commit, abort, *)
(* addCollection, destruction), the local CRUD pipeline with the           *)
(* replication to followers, and the coordinator CRUD pipeline.            *)
(***************************************************************************)
EXTENDS Integers, Sequences, FiniteSets, TLC

VARIABLES
  isReal,       \* Transaction::_isReal: FALSE on a coordinator
  embeddable,   \* TransactionContext::isEmbeddable()
  trx,          \* the TRI_transaction_t handle known to the context, or NoTrx
  facades,      \* the live Transaction objects, in order of construction
  nextId,       \* the id the next created handle gets
  registered,   \* the context holds a registered (parent) transaction
  stored,       \* results stored in the context: set of <<id, hasFailedOperations>>
  freeCount,    \* how often each handle id was passed to TRI_FreeTransaction
  freedStatus,  \* the status each handle had when it was freed
  call,         \* the last call: operation, facade, arguments, return code, steps
  store,        \* the collection: for each key the stored revision, 0 when absent
  locked,       \* the collection lock is held for the transaction
  result,       \* the last local operation: its input, its OperationResult, its steps
  role,         \* ServerState: the role of this server
  followers,    \* FollowerInfo: the followers of the shard, in order
  net,          \* the requests the last operation sent and the followers it dropped
  plan,         \* the last call of the index planner or of sortOrs: input and output
  codec,        \* the last call of the document identity codec: input and output
  failurePoints,  \* the fail-points that are armed (TRI_*FailurePointDebugging)
  reply,        \* the last debug request and the responses generated for it
  wlock         \* the write lock of the collection and the facades writing it

lifeVars == <<isReal, embeddable, trx, facades, nextId, registered, stored,
              freeCount, freedStatus, call>>

crudVars == <<store, locked, result>>

clusterVars == <<role, followers, net>>

planVars == <<plan>>

codecVars == <<codec>>

debugVars == <<failurePoints, reply>>

lockVars == <<wlock>>

vars == <<lifeVars, crudVars, clusterVars, planVars, codecVars, debugVars, lockVars>>

(***************************************************************************)
(* Bounds of the model.                                                    *)
(***************************************************************************)
MaxFacades == 3
MaxTrx == 2
MaxRev == 2       \* revisions are 1..MaxRev
MaxBatch == 2     \* longest array passed to a CRUD operation
MaxLimit == 2     \* largest skip and limit passed to all / any
MaxSuffix == 3    \* most segments in the suffix of a debug request
MaxLen == 3       \* longest string given to the document identity codec
MaxOr == 3        \* most AND clauses under the OR root of a condition
MaxIndexes == 2   \* most indexes of the collection the planner chooses from
MaxClauses == 2   \* most AND clauses under the root given to the planner

NoTrx == [id |-> 0]

Cids == {0, 1}      \* 0 is the invalid collection id
AccessTypes == {"read", "write"}

TrxIds == 1..MaxTrx

(***************************************************************************)
(* Header-defined accessors of Transaction.                                *)
(***************************************************************************)
getStatus(fac, t) == IF fac.hasTrx THEN t.status ELSE "UNDEFINED"

isEmbeddedTransaction(fac) == fac.nestingLevel > 0

(***************************************************************************)
(* The storage engine's transaction functions, at the given nesting level. *)
(***************************************************************************)
TRI_BeginTransaction(t, level) ==
  [res |-> "NO_ERROR",
   trx |-> IF level = 0 /\ t.status = "CREATED"
             THEN [t EXCEPT !.status = "RUNNING"] ELSE t]

TRI_CommitTransaction(t, level) ==
  [res |-> "NO_ERROR",
   trx |-> IF level = 0 THEN [t EXCEPT !.status = "COMMITTED"] ELSE t]

TRI_AbortTransaction(t, level) ==
  [res |-> "NO_ERROR",
   trx |-> IF level = 0 THEN [t EXCEPT !.status = "ABORTED"] ELSE t]

TRI_AddCollectionTransaction(t, cid, type) ==
  [res |-> "NO_ERROR",
   trx |-> [t EXCEPT !.collections[cid] =
              IF type = "write" \/ @ = "write" THEN "write" ELSE "read"]]

(***************************************************************************)
(* Transaction::begin                                                      *)
(***************************************************************************)
beginResult(fac, t, real) ==
  IF ~fac.hasTrx THEN [res |-> "TRANSACTION_INTERNAL", trx |-> t]
  ELSE IF fac.setupState # "NO_ERROR" THEN [res |-> fac.setupState, trx |-> t]
  ELSE IF ~real
    THEN [res |-> "NO_ERROR",
          trx |-> IF fac.nestingLevel = 0
                    THEN [t EXCEPT !.status = "RUNNING"] ELSE t]
  ELSE TRI_BeginTransaction(t, fac.nestingLevel)

(***************************************************************************)
(* Transaction::commit                                                     *)
(***************************************************************************)
commitResultNoGuard(fac, t, real) ==
  IF ~fac.hasTrx
    THEN [res |-> "TRANSACTION_INTERNAL", trx |-> t]
  ELSE IF ~real
    THEN [res |-> "NO_ERROR",
          trx |-> IF fac.nestingLevel = 0
                    THEN [t EXCEPT !.status = "COMMITTED"] ELSE t]
  ELSE TRI_CommitTransaction(t, fac.nestingLevel)

commitResult(fac, t, real) ==
  IF ~fac.hasTrx \/ getStatus(fac, t) # "RUNNING"
    THEN [res |-> "TRANSACTION_INTERNAL", trx |-> t]
  ELSE IF ~real
    THEN [res |-> "NO_ERROR",
          trx |-> IF fac.nestingLevel = 0
                    THEN [t EXCEPT !.status = "COMMITTED"] ELSE t]
  ELSE TRI_CommitTransaction(t, fac.nestingLevel)

(***************************************************************************)
(* Transaction::abort                                                      *)
(***************************************************************************)
abortResultEmbeddedChangesStatus(fac, t, real) ==
  IF ~fac.hasTrx \/ getStatus(fac, t) # "RUNNING"
    THEN [res |-> "TRANSACTION_INTERNAL", trx |-> t]
  ELSE IF ~real
    THEN [res |-> "NO_ERROR", trx |-> [t EXCEPT !.status = "ABORTED"]]
  ELSE TRI_AbortTransaction(t, fac.nestingLevel)

abortResult(fac, t, real) ==
  IF ~fac.hasTrx \/ getStatus(fac, t) # "RUNNING"
    THEN [res |-> "TRANSACTION_INTERNAL", trx |-> t]
  ELSE IF ~real
    THEN [res |-> "NO_ERROR",
          trx |-> IF fac.nestingLevel = 0
                    THEN [t EXCEPT !.status = "ABORTED"] ELSE t]
  ELSE TRI_AbortTransaction(t, fac.nestingLevel)

(***************************************************************************)
(* Transaction::addCollectionEmbedded, addCollectionToplevel, addCollection*)
(***************************************************************************)
addCollectionEmbedded(fac, t, cid, type) ==
  TRI_AddCollectionTransaction(t, cid, type)

addCollectionToplevelAnyStatus(fac, t, cid, type) ==
  TRI_AddCollectionTransaction(t, cid, type)

addCollectionToplevel(fac, t, cid, type) ==
  IF getStatus(fac, t) # "CREATED"
    THEN [res |-> "TRANSACTION_INTERNAL", trx |-> t]
    ELSE TRI_AddCollectionTransaction(t, cid, type)

addCollectionResult(fac, t, cid, type) ==
  IF ~fac.hasTrx THEN [res |-> "INTERNAL", trx |-> t]
  ELSE IF cid = 0 THEN [res |-> "ARANGO_COLLECTION_NOT_FOUND", trx |-> t]
  ELSE IF fac.setupState # "NO_ERROR" THEN [res |-> fac.setupState, trx |-> t]
  ELSE IF getStatus(fac, t) \in {"COMMITTED", "ABORTED"}
    THEN [res |-> "TRANSACTION_INTERNAL", trx |-> t]
  ELSE IF isEmbeddedTransaction(fac)
    THEN addCollectionEmbedded(fac, t, cid, type)
  ELSE addCollectionToplevel(fac, t, cid, type)

(***************************************************************************)
(* Transaction::setupEmbedded, setupToplevel: the facade a construction    *)
(* yields and the handle after it.                                         *)
(***************************************************************************)
setupEmbeddedCheckFirst(t, canEmbed) ==
  IF ~canEmbed
    THEN [fac |-> [nestingLevel |-> 0, setupState |-> "TRANSACTION_NESTED",
                   hasTrx |-> TRUE, adopted |-> TRUE],
          trx |-> t]
    ELSE [fac |-> [nestingLevel |-> t.nestingLevel + 1, setupState |-> "NO_ERROR",
                   hasTrx |-> TRUE, adopted |-> TRUE],
          trx |-> [t EXCEPT !.nestingLevel = @ + 1]]

setupEmbedded(t, canEmbed) ==
  [fac |-> [nestingLevel |-> t.nestingLevel + 1,
            setupState |-> IF canEmbed THEN "NO_ERROR" ELSE "TRANSACTION_NESTED",
            hasTrx |-> TRUE, adopted |-> TRUE],
   trx |-> [t EXCEPT !.nestingLevel = @ + 1]]

TRI_CreateTransaction(id) ==
  [id |-> id, status |-> "CREATED", nestingLevel |-> 0,
   collections |-> [c \in Cids \ {0} |-> "none"]]

setupToplevel(id, createOk) ==
  IF createOk
    THEN [fac |-> [nestingLevel |-> 0, setupState |-> "NO_ERROR",
                   hasTrx |-> TRUE, adopted |-> FALSE],
          trx |-> TRI_CreateTransaction(id)]
    ELSE [fac |-> [nestingLevel |-> 0, setupState |-> "OUT_OF_MEMORY",
                   hasTrx |-> FALSE, adopted |-> FALSE],
          trx |-> NoTrx]

(***************************************************************************)
(* The constructor: Transaction::Transaction and setupTransaction.         *)
(***************************************************************************)
Construct ==
  /\ Len(facades) < MaxFacades
  /\ IF registered
       THEN LET s == setupEmbedded(trx, embeddable) IN
            /\ trx' = s.trx
            /\ facades' = Append(facades, s.fac)
            /\ call' = [op |-> "construct", f |-> Len(facades) + 1, cid |-> 0,
                        res |-> s.fac.setupState, events |-> <<>>]
            /\ UNCHANGED <<nextId, registered>>
       ELSE \E createOk \in BOOLEAN :
            LET s == setupToplevel(nextId, createOk) IN
            /\ createOk => nextId <= MaxTrx
            /\ trx' = s.trx
            /\ facades' = Append(facades, s.fac)
            /\ nextId' = IF createOk THEN nextId + 1 ELSE nextId
            /\ registered' = createOk
            /\ call' = [op |-> "construct", f |-> Len(facades) + 1, cid |-> 0,
                        res |-> s.fac.setupState, events |-> <<>>]
  /\ UNCHANGED <<isReal, embeddable, stored, freeCount, freedStatus>>

(***************************************************************************)
(* begin, commit, abort, addCollection called on a live facade.            *)
(***************************************************************************)
begin(f) ==
  LET r == beginResult(facades[f], trx, isReal) IN
  /\ trx' = r.trx
  /\ call' = [op |-> "begin", f |-> f, cid |-> 0, res |-> r.res, events |-> <<>>]
  /\ UNCHANGED <<isReal, embeddable, facades, nextId, registered, stored,
                 freeCount, freedStatus>>

commit(f) ==
  LET r == commitResult(facades[f], trx, isReal) IN
  /\ trx' = r.trx
  /\ call' = [op |-> "commit", f |-> f, cid |-> 0, res |-> r.res, events |-> <<>>]
  /\ UNCHANGED <<isReal, embeddable, facades, nextId, registered, stored,
                 freeCount, freedStatus>>

abort(f) ==
  LET r == abortResult(facades[f], trx, isReal) IN
  /\ trx' = r.trx
  /\ call' = [op |-> "abort", f |-> f, cid |-> 0, res |-> r.res, events |-> <<>>]
  /\ UNCHANGED <<isReal, embeddable, facades, nextId, registered, stored,
                 freeCount, freedStatus>>

addCollection(f, cid, type) ==
  LET r == addCollectionResult(facades[f], trx, cid, type) IN
  /\ trx' = r.trx
  /\ call' = [op |-> "addCollection", f |-> f, cid |-> cid, res |-> r.res,
              events |-> <<>>]
  /\ UNCHANGED <<isReal, embeddable, facades, nextId, registered, stored,
                 freeCount, freedStatus>>

(***************************************************************************)
(* Transaction::~Transaction with freeTransaction.  Facades are destroyed  *)
(* in the reverse order of their construction.  What the destructor does   *)
(* is a record: the handle after it, and the steps it took.                *)
(***************************************************************************)
destroyNoAbort(fac, t, real) ==
  IF ~fac.hasTrx THEN [trx |-> t, events |-> <<>>, freed |-> FALSE]
  ELSE IF isEmbeddedTransaction(fac)
    THEN [trx |-> [t EXCEPT !.nestingLevel = @ - 1],
          events |-> <<"unnest">>, freed |-> FALSE]
  ELSE [trx |-> t, events |-> <<"free", "store", "unregister">>, freed |-> TRUE]

destroyResult(fac, t, real) ==
  IF ~fac.hasTrx THEN [trx |-> t, events |-> <<>>, freed |-> FALSE]
  ELSE IF isEmbeddedTransaction(fac)
    THEN [trx |-> [t EXCEPT !.nestingLevel = @ - 1],
          events |-> <<"unnest">>, freed |-> FALSE]
  ELSE IF getStatus(fac, t) = "RUNNING"
    THEN [trx |-> abortResult(fac, t, real).trx,
          events |-> <<"abort", "free", "store", "unregister">>, freed |-> TRUE]
    ELSE [trx |-> t, events |-> <<"free", "store", "unregister">>, freed |-> TRUE]

Destroy ==
  /\ facades # <<>>
  /\ LET f == Len(facades)
         d == destroyResult(facades[f], trx, isReal) IN
     /\ facades' = SubSeq(facades, 1, f - 1)
     /\ call' = [op |-> "destroy", f |-> f, cid |-> 0, res |-> "NO_ERROR",
                 events |-> d.events]
     /\ IF d.freed
          THEN \E hasFailedOperations \in BOOLEAN :
               /\ trx' = NoTrx
               /\ freeCount' = [freeCount EXCEPT ![trx.id] = @ + 1]
               /\ freedStatus' = [freedStatus EXCEPT ![trx.id] = d.trx.status]
               /\ stored' = stored \cup {<<trx.id, hasFailedOperations>>}
               /\ registered' = FALSE
          ELSE /\ trx' = d.trx
               /\ UNCHANGED <<freeCount, freedStatus, stored, registered>>
  /\ UNCHANGED <<isReal, embeddable, nextId>>

(***************************************************************************)
(* The local CRUD pipeline.  Strings are sequences of characters; a        *)
(* tagged-tree slice is a record with its type.  Revisions are numbers,    *)
(* 0 standing for an absent _rev.                                          *)
(***************************************************************************)
KeyOrder == << <<"a">>, <<"b">> >>      \* the keys, in primary-index order
Keys == {KeyOrder[i] : i \in 1..Len(KeyOrder)}
Revs == 1..MaxRev
CollName == <<"c">>
DbName == <<"d">>
BatchSize == 1000

Min(a, b) == IF a < b THEN a ELSE b

Str(s) == [type |-> "string", str |-> s]
Num(n) == [type |-> "number", num |-> n]
Obj(k, r) == [type |-> "object", key |-> k, rev |-> r]
Arr(items) == [type |-> "array", items |-> items]

\* the values an element of a request can be
Elements ==
  {Obj(Str(k), r) : k \in Keys, r \in 0..MaxRev}
    \cup {Obj(Num(7), 0), Str(<<"a">>), Str(<<"c", "/", "b">>), Num(7)}

Values ==
  Elements \cup {Arr(items) : items \in UNION {[1..n -> Elements] : n \in 0..MaxBatch}}

\* the flags that return more (waitForSync, returnOld, returnNew) are all set or
\* all clear
OptionSets ==
  {[ignoreRevs |-> i, silent |-> s, waitForSync |-> m, returnOld |-> m,
    returnNew |-> m] : i \in BOOLEAN, s \in BOOLEAN, m \in BOOLEAN}

Ev(e, k, flag) == [e |-> e, key |-> k, flag |-> flag]

Item(kind, id, key, rev, oldRev, old, new, errorNum) ==
  [kind |-> kind, id |-> id, key |-> key, rev |-> rev, oldRev |-> oldRev,
   old |-> old, new |-> new, errorNum |-> errorNum]

NoCounts == [c \in {} |-> 0]

\* the position of the first '/' in s, 0 when there is none (std::string::find)
RECURSIVE find(_, _)
find(s, i) ==
  IF i > Len(s) THEN 0
  ELSE IF s[i] = "/" THEN i
  ELSE find(s, i + 1)

\* the position of the last '/' in s, 0 when there is none
RECURSIVE rfind(_, _)
rfind(s, i) ==
  IF i < 1 THEN 0
  ELSE IF s[i] = "/" THEN i
  ELSE rfind(s, i - 1)

(***************************************************************************)
(* Transaction::extractKey                                                 *)
(***************************************************************************)
extractKeyAfterLastSlash(slice) ==
  IF slice.type = "object"
    THEN IF slice.key.type # "string" THEN <<>> ELSE slice.key.str
  ELSE IF slice.type = "string"
    THEN LET pos == rfind(slice.str, Len(slice.str)) IN
         IF pos # 0 THEN SubSeq(slice.str, pos + 1, Len(slice.str)) ELSE slice.str
  ELSE <<>>

extractKey(slice) ==
  IF slice.type = "object"
    THEN IF slice.key.type # "string" THEN <<>> ELSE slice.key.str
  ELSE IF slice.type = "string"
    THEN LET pos == find(slice.str, 1) IN
         IF pos # 0 THEN SubSeq(slice.str, pos + 1, Len(slice.str)) ELSE slice.str
  ELSE <<>>

\* TRI_ExtractRevisionIdAsSlice: the _rev of an object, none otherwise
TRI_ExtractRevisionIdAsSlice(slice) ==
  IF slice.type = "object" THEN slice.rev ELSE 0

(***************************************************************************)
(* Transaction::extractIdString.  An object carries its _id and _key,      *)
(* VPackNone standing for an attribute it does not have; a custom-typed    *)
(* slice has its head byte and the collection id of its next 8 bytes.      *)
(***************************************************************************)
VPackNone == [type |-> "none"]

Doc(id, key) == [type |-> "object", id |-> id, key |-> key, rev |-> 0]

Custom(head, cid) == [type |-> "custom", head |-> head, cid |-> cid]

CustomIdTag == 243      \* 0xf3

\* CollectionNameResolver::getCollectionNameCluster
CollectionNames == <<CollName, <<"u", "s">>>>

getCollectionNameCluster(cid) == CollectionNames[cid]

Failed(code) == [thrown |-> TRUE, code |-> code, str |-> <<>>]

StringResult(str) == [thrown |-> FALSE, code |-> "NO_ERROR", str |-> str]

extractIdStringKeyFromBaseFirst(slice, base) ==
  LET id == IF slice.type = "object" THEN slice.id ELSE slice IN
  IF id.type = "string" THEN StringResult(id.str)
  ELSE IF id.type # "custom" \/ id.head # CustomIdTag
    THEN Failed("ARANGO_DOCUMENT_TYPE_INVALID")
  ELSE LET key == IF base.type = "object" THEN base.key
                  ELSE IF slice.type = "object" THEN slice.key
                  ELSE VPackNone IN
       IF key.type # "string" THEN Failed("ARANGO_DOCUMENT_TYPE_INVALID")
       ELSE StringResult(getCollectionNameCluster(id.cid) \o <<"/">> \o key.str)

extractIdString(slice, base) ==
  LET id == IF slice.type = "object" THEN slice.id ELSE slice IN
  IF id.type = "string" THEN StringResult(id.str)
  ELSE IF id.type # "custom" \/ id.head # CustomIdTag
    THEN Failed("ARANGO_DOCUMENT_TYPE_INVALID")
  ELSE LET key == IF slice.type = "object" THEN slice.key
                  ELSE IF base.type = "object" THEN base.key
                  ELSE VPackNone IN
       IF key.type # "string" THEN Failed("ARANGO_DOCUMENT_TYPE_INVALID")
       ELSE StringResult(getCollectionNameCluster(id.cid) \o <<"/">> \o key.str)

(***************************************************************************)
(* Transaction::buildDocumentIdentity                                      *)
(***************************************************************************)
buildDocumentIdentityIdIsKey(st, key, rid, oldRid, oldMptr, newMptr) ==
  [st EXCEPT !.payload =
     Append(@, Item("identity", key, key, rid, oldRid, oldMptr, newMptr,
                    "NO_ERROR"))]

buildDocumentIdentity(st, key, rid, oldRid, oldMptr, newMptr) ==
  [st EXCEPT !.payload =
     Append(@, Item("identity", CollName \o <<"/">> \o key, key, rid, oldRid,
                    oldMptr, newMptr, "NO_ERROR"))]

(***************************************************************************)
(* createBabiesError                                                       *)
(***************************************************************************)
createBabiesErrorNoIncrement(st, errorCode) ==
  [st EXCEPT
     !.payload = Append(@, Item("error", <<>>, <<>>, 0, 0, FALSE, FALSE, errorCode)),
     !.counts = IF errorCode \in DOMAIN @ THEN @ ELSE @ @@ (errorCode :> 1)]

createBabiesError(st, errorCode) ==
  [st EXCEPT
     !.payload = Append(@, Item("error", <<>>, <<>>, 0, 0, FALSE, FALSE, errorCode)),
     !.counts = IF errorCode \in DOMAIN @
                  THEN [@ EXCEPT ![errorCode] = @ + 1]
                  ELSE @ @@ (errorCode :> 1)]

(***************************************************************************)
(* Transaction::isLocked, lock, unlock on the collection of the operation, *)
(* inside a RUNNING transaction.                                           *)
(***************************************************************************)
isLocked(st) == st.locked

lock(st, engineRes) ==
  [res |-> engineRes,
   st |-> [st EXCEPT !.locked = (engineRes = "NO_ERROR") \/ @,
                     !.events = Append(@, Ev("lock", <<>>, engineRes = "NO_ERROR"))]]

unlock(st) ==
  [res |-> "NO_ERROR",
   st |-> [st EXCEPT !.locked = FALSE,
                     !.events = Append(@, Ev("unlock", <<>>, TRUE))]]

orderDitch(st) == [st EXCEPT !.events = Append(@, Ev("ditch", <<>>, TRUE))]

(***************************************************************************)
(* The document collection of the storage engine: read, insert, update,    *)
(* replace and remove of one document.  lockFlag tells the engine to take  *)
(* the collection lock itself.                                             *)
(***************************************************************************)
\* the revision clock: a new document gets revision 1, a changed one the
\* revision after its last
FirstRev == 1
Tick(rev) == (rev % MaxRev) + 1

document_read(st, key, lockFlag) ==
  LET st1 == [st EXCEPT !.events = Append(@, Ev("read", key, lockFlag))] IN
  IF key \notin Keys \/ st.store[key] = 0
    THEN [res |-> "ARANGO_DOCUMENT_NOT_FOUND", st |-> st1, rev |-> 0]
    ELSE [res |-> "NO_ERROR", st |-> st1, rev |-> st.store[key]]

document_insert(st, value, lockFlag) ==
  LET key == extractKey(value)
      st1 == [st EXCEPT !.events = Append(@, Ev("insert", key, lockFlag))] IN
  IF key \notin Keys
    THEN [res |-> "ARANGO_DOCUMENT_KEY_BAD", st |-> st1, key |-> key, rev |-> 0]
  ELSE IF st.store[key] # 0
    THEN [res |-> "ARANGO_UNIQUE_CONSTRAINT_VIOLATED", st |-> st1, key |-> key,
          rev |-> 0]
  ELSE [res |-> "NO_ERROR",
        st |-> [st1 EXCEPT !.store[key] = FirstRev],
        key |-> key, rev |-> FirstRev]

\* update and replace differ in the document written, which is not modelled
document_update(st, newVal, options, lockFlag, opName) ==
  LET key == extractKey(newVal)
      st1 == [st EXCEPT !.events = Append(@, Ev(opName, key, lockFlag))] IN
  IF key \notin Keys
    THEN [res |-> "ARANGO_DOCUMENT_KEY_BAD", st |-> st1, rev |-> 0,
          actualRevision |-> 0]
  ELSE IF st.store[key] = 0
    THEN [res |-> "ARANGO_DOCUMENT_NOT_FOUND", st |-> st1, rev |-> 0,
          actualRevision |-> 0]
  ELSE IF ~options.ignoreRevs /\ newVal.rev # 0 /\ newVal.rev # st.store[key]
    THEN [res |-> "ARANGO_CONFLICT", st |-> st1, rev |-> 0,
          actualRevision |-> st.store[key]]
  ELSE [res |-> "NO_ERROR",
        st |-> [st1 EXCEPT !.store[key] = Tick(@)],
        rev |-> Tick(st.store[key]), actualRevision |-> st.store[key]]

document_remove(st, value, options, lockFlag, failing) ==
  LET key == extractKey(value)
      expected == TRI_ExtractRevisionIdAsSlice(value)
      \* the call, and the ignoreRevs it was given
      st1 == [st EXCEPT !.events = @ \o <<Ev("remove", key, lockFlag),
                                            Ev("ignoreRevs", key, options.ignoreRevs)>>] IN
  IF failing
    THEN [res |-> "OUT_OF_MEMORY", st |-> st1, actualRevision |-> 0]
  ELSE IF key \notin Keys
    THEN [res |-> "ARANGO_DOCUMENT_KEY_BAD", st |-> st1, actualRevision |-> 0]
  ELSE IF st.store[key] = 0
    THEN [res |-> "ARANGO_DOCUMENT_NOT_FOUND", st |-> st1, actualRevision |-> 0]
  ELSE IF ~options.ignoreRevs /\ expected # 0 /\ expected # st.store[key]
    THEN [res |-> "ARANGO_CONFLICT", st |-> st1,
          actualRevision |-> st.store[key]]
  ELSE [res |-> "NO_ERROR", st |-> [st1 EXCEPT !.store[key] = 0],
        actualRevision |-> st.store[key]]

(***************************************************************************)
(* The per-document workers (the lambdas of documentLocal, insertLocal,    *)
(* modifyLocal and removeLocal).                                           *)
(***************************************************************************)
documentLocal_workOnOneDocumentNoRevCheck(st, value, options) ==
  LET key == extractKey(value) IN
  IF key = <<>>
    THEN [res |-> "ARANGO_DOCUMENT_HANDLE_BAD", st |-> st, thrown |-> FALSE]
  ELSE LET r == document_read(st, key, ~isLocked(st)) IN
       IF r.res # "NO_ERROR" THEN [res |-> r.res, st |-> r.st, thrown |-> FALSE]
       ELSE [res |-> "NO_ERROR",
             st |-> IF ~options.silent
                      THEN [r.st EXCEPT !.payload =
                              Append(@, Item("document", CollName \o <<"/">> \o key,
                                             key, r.rev, 0, FALSE, FALSE, "NO_ERROR"))]
                      ELSE r.st,
             thrown |-> FALSE]

documentLocal_workOnOneDocument(st, value, options) ==
  LET key == extractKey(value) IN
  IF key = <<>>
    THEN [res |-> "ARANGO_DOCUMENT_HANDLE_BAD", st |-> st, thrown |-> FALSE]
  ELSE LET expectedRevision ==
             IF ~options.ignoreRevs THEN TRI_ExtractRevisionIdAsSlice(value) ELSE 0
           r == document_read(st, key, ~isLocked(st)) IN
       IF r.res # "NO_ERROR" THEN [res |-> r.res, st |-> r.st, thrown |-> FALSE]
       ELSE IF expectedRevision # 0 /\ expectedRevision # r.rev
         THEN [res |-> "ARANGO_CONFLICT",
               st |-> buildDocumentIdentity(r.st, key, r.rev, 0, FALSE, FALSE),
               thrown |-> FALSE]
       ELSE [res |-> "NO_ERROR",
             st |-> IF ~options.silent
                      THEN [r.st EXCEPT !.payload =
                              Append(@, Item("document", CollName \o <<"/">> \o key,
                                             key, r.rev, 0, FALSE, FALSE, "NO_ERROR"))]
                      ELSE r.st,
             thrown |-> FALSE]

insertLocal_workForOneDocument(st, value, options) ==
  IF value.type # "object"
    THEN [res |-> "ARANGO_DOCUMENT_TYPE_INVALID", st |-> st, thrown |-> FALSE]
  ELSE LET r == document_insert(st, value, ~isLocked(st)) IN
       IF r.res # "NO_ERROR" THEN [res |-> r.res, st |-> r.st, thrown |-> FALSE]
       ELSE IF options.silent
         THEN [res |-> "NO_ERROR", st |-> r.st, thrown |-> FALSE]
       ELSE [res |-> "NO_ERROR",
             st |-> buildDocumentIdentity(r.st, r.key, r.rev, 0, FALSE,
                                          options.returnNew),
             thrown |-> FALSE]

modifyLocal_workForOneDocument(st, newVal, options, operation) ==
  IF newVal.type # "object"
    THEN [res |-> "ARANGO_DOCUMENT_TYPE_INVALID", st |-> st, thrown |-> FALSE]
  ELSE LET r == document_update(st, newVal, options, ~isLocked(st), operation) IN
       IF r.res = "ARANGO_CONFLICT"
         THEN [res |-> "ARANGO_CONFLICT",
               st |-> IF ~options.silent
                        THEN buildDocumentIdentity(r.st, newVal.key.str,
                               r.actualRevision, 0, options.returnOld, FALSE)
                        ELSE r.st,
               thrown |-> FALSE]
       ELSE IF r.res # "NO_ERROR"
         THEN [res |-> r.res, st |-> r.st, thrown |-> FALSE]
       ELSE [res |-> "NO_ERROR",
             st |-> IF ~options.silent
                      THEN buildDocumentIdentity(r.st, newVal.key.str, r.rev,
                             r.actualRevision, options.returnOld, options.returnNew)
                      ELSE r.st,
             thrown |-> FALSE]

removeLocal_workOnOneDocument(st, value, options) ==
  IF value.type \notin {"string", "object"}
    THEN [res |-> "ARANGO_DOCUMENT_HANDLE_BAD", st |-> st, thrown |-> FALSE]
  ELSE IF value.type = "object" /\ value.key.type # "string"
    \* value.get("_key").copyString() throws on a _key that is no string
    THEN [res |-> "VPACK_INVALID_VALUE_TYPE", st |-> st, thrown |-> TRUE]
  ELSE LET key == IF value.type = "string" THEN extractKey(value) ELSE value.key.str
           sent == IF value.type = "string" THEN Str(key) ELSE value
           r == document_remove(st, sent, options, ~isLocked(st), FALSE) IN
       IF r.res # "NO_ERROR"
         THEN [res |-> r.res,
               st |-> IF r.res = "ARANGO_CONFLICT" /\ ~options.silent
                        THEN buildDocumentIdentity(r.st, key, r.actualRevision, 0,
                                                   options.returnOld, FALSE)
                        ELSE r.st,
               thrown |-> FALSE]
       ELSE [res |-> "NO_ERROR",
             st |-> IF ~options.silent
                      THEN buildDocumentIdentity(r.st, key, r.actualRevision, 0,
                                                 options.returnOld, FALSE)
                      ELSE r.st,
             thrown |-> FALSE]

(***************************************************************************)
(* The loops over the elements of an array.  outcomes records, for every   *)
(* element the worker ran on, its return code, the key and the stored      *)
(* revision before and after, and the length of the payload after.         *)
(***************************************************************************)
StoredRev(st, key) == IF key \in Keys THEN st.store[key] ELSE 0

Observe(acc, value, w) ==
  [st |-> w.st, res |-> w.res, thrown |-> w.thrown,
   outcomes |-> Append(acc.outcomes,
                  [res |-> w.res, key |-> extractKey(value),
                   before |-> StoredRev(acc.st, extractKey(value)),
                   after |-> StoredRev(w.st, extractKey(value)),
                   np |-> Len(w.st.payload)])]

Start(st) == [st |-> st, res |-> "NO_ERROR", thrown |-> FALSE, outcomes |-> <<>>]

RECURSIVE documentLoop(_, _, _, _)
documentLoop(acc, items, i, options) ==
  IF i > Len(items) THEN acc
  ELSE LET a == Observe(acc, items[i],
                        documentLocal_workOnOneDocument(acc.st, items[i], options)) IN
       IF a.res # "NO_ERROR" THEN a ELSE documentLoop(a, items, i + 1, options)

RECURSIVE insertLoopBreaks(_, _, _, _)
insertLoopBreaks(acc, items, i, options) ==
  IF i > Len(items) THEN [acc EXCEPT !.res = "NO_ERROR"]
  ELSE LET a == Observe(acc, items[i],
                        insertLocal_workForOneDocument(acc.st, items[i], options)) IN
       IF a.res # "NO_ERROR"
         THEN [a EXCEPT !.st = createBabiesError(a.st, a.res), !.res = "NO_ERROR"]
         ELSE insertLoopBreaks(a, items, i + 1, options)

RECURSIVE insertLoop(_, _, _, _)
insertLoop(acc, items, i, options) ==
  IF i > Len(items) THEN [acc EXCEPT !.res = "NO_ERROR"]
  ELSE LET a == Observe(acc, items[i],
                        insertLocal_workForOneDocument(acc.st, items[i], options))
           b == IF a.res # "NO_ERROR"
                  THEN [a EXCEPT !.st = createBabiesError(a.st, a.res)]
                  ELSE a IN
       insertLoop(b, items, i + 1, options)

RECURSIVE modifyLoop(_, _, _, _, _)
modifyLoop(acc, items, i, options, operation) ==
  IF i > Len(items) THEN acc
  ELSE LET a == Observe(acc, items[i],
                        modifyLocal_workForOneDocument(acc.st, items[i], options,
                                                       operation)) IN
       IF a.res # "NO_ERROR" THEN a
       ELSE modifyLoop(a, items, i + 1, options, operation)

RECURSIVE removeLoopContinues(_, _, _, _)
removeLoopContinues(acc, items, i, options) ==
  IF i > Len(items) THEN acc
  ELSE LET a == Observe(acc, items[i],
                        removeLocal_workOnOneDocument(acc.st, items[i], options)) IN
       IF a.thrown THEN a
       ELSE removeLoopContinues(
              [a EXCEPT !.res = IF acc.res # "NO_ERROR" THEN acc.res ELSE a.res],
              items, i + 1, options)

RECURSIVE removeLoop(_, _, _, _)
removeLoop(acc, items, i, options) ==
  IF i > Len(items) THEN acc
  ELSE LET a == Observe(acc, items[i],
                        removeLocal_workOnOneDocument(acc.st, items[i], options)) IN
       IF a.res # "NO_ERROR" THEN a ELSE removeLoop(a, items, i + 1, options)

(***************************************************************************)
(* documentLocal, insertLocal, modifyLocal, removeLocal: the state and the *)
(* OperationResult they end with.                                          *)
(***************************************************************************)
Fresh(s, l) ==
  [store |-> s, locked |-> l, payload |-> <<>>, counts |-> NoCounts,
   events |-> <<>>]

Thrown(st, code) ==
  [st |-> st, res |-> code, thrown |-> TRUE, outcomes |-> <<>>]

documentLocal(st, value, options) ==
  LET st1 == orderDitch(st) IN
  IF value.type # "array"
    THEN Observe(Start(st1), value,
                 documentLocal_workOnOneDocument(st1, value, options))
    ELSE documentLoop(Start(st1), value.items, 1, options)

\* insertLocal up to the local write
insertLocal_write(st, value, options) ==
  IF value.type = "array"
    THEN insertLoop(Start(st), value.items, 1, options)
    ELSE Observe(Start(st), value,
                 insertLocal_workForOneDocument(st, value, options))

modifyLocal(st, newValue, options, operation, lockRes) ==
  LET l == lock(st, lockRes) IN
  IF l.res # "NO_ERROR"
    THEN [st |-> l.st, res |-> l.res, thrown |-> FALSE, outcomes |-> <<>>]
  ELSE IF newValue.type = "array"
    THEN modifyLoop(Start(l.st), newValue.items, 1, options, operation)
    ELSE Observe(Start(l.st), newValue,
                 modifyLocal_workForOneDocument(l.st, newValue, options, operation))

removeLocal(st, value, options) ==
  IF value.type = "array"
    THEN removeLoop(Start(st), value.items, 1, options)
    ELSE Observe(Start(st), value,
                 removeLocal_workOnOneDocument(st, value, options))

(***************************************************************************)
(* Transaction::indexScan and Transaction::indexScanForCondition, and the  *)
(* cursor they return (hasMore, getMore).  The role of the server is what  *)
(* ServerState::instance() answers.                                        *)
(***************************************************************************)
Roles == {"ROLE_SINGLE", "ROLE_PRIMARY", "ROLE_COORDINATOR"}

isDBServer(r) == r = "ROLE_PRIMARY"
isCoordinator(r) == r = "ROLE_COORDINATOR"

CursorTypes == {"ANY", "ALL", "INDEX"}

\* IndexHandle(): the empty handle, and the handle of an index
IndexHandles == {"none", "idx"}

\* a search value or condition, as the set of keys the index finds for it
Searches == SUBSET Keys
RECURSIVE Present(_, _, _)
Present(s, order, i) ==
  IF i > Len(order) THEN <<>>
  ELSE IF s[order[i]] # 0 THEN <<order[i]>> \o Present(s, order, i + 1)
  ELSE Present(s, order, i + 1)

RECURSIVE Found(_, _, _)
Found(docs, search, i) ==
  IF i > Len(docs) THEN <<>>
  ELSE IF docs[i] \in search THEN <<docs[i]>> \o Found(docs, search, i + 1)
  ELSE Found(docs, search, i + 1)

Reversed(docs) == [i \in 1..Len(docs) |-> docs[Len(docs) + 1 - i]]

\* what iteratorForSlice and iteratorForCondition enumerate
IndexIterator(st, search, reverse) ==
  LET docs == Found(Present(st.store, KeyOrder, 1), search, 1) IN
  IF reverse THEN Reversed(docs) ELSE docs

\* OperationCursor(code): a cursor without iterator
OperationCursor(code) ==
  [code |-> code, docs |-> <<>>, limit |-> 0, batchSize |-> 0, hasMore |-> FALSE,
   thrown |-> FALSE]

\* OperationCursor(iterator, limit, batchSize)
OperationCursorOn(docs, limit, batchSize) ==
  [code |-> "NO_ERROR", docs |-> docs, limit |-> limit, batchSize |-> batchSize,
   hasMore |-> TRUE, thrown |-> FALSE]

\* THROW_ARANGO_EXCEPTION out of a function that returns a cursor
CursorThrown(code) == [OperationCursor(code) EXCEPT !.thrown = TRUE]

\* indexScan after its two entry checks: the iterator, the skip, the cursor
\* (the collection always has its primary index)
\* the iterator of each cursor kind
indexScan_docs(st, cursorType, search, reverse, anyOrder) ==
  IF cursorType = "ANY" THEN Present(st.store, anyOrder, 1)
  ELSE IF cursorType = "ALL"
    THEN IF reverse THEN Reversed(Present(st.store, KeyOrder, 1))
                    ELSE Present(st.store, KeyOrder, 1)
  ELSE IndexIterator(st, search, reverse)

indexScan_iteratorBeforeHandle(st, cursorType, indexId, search, skip, limit, batchSize, reverse, anyOrder, iteratorOk) ==
  IF ~iteratorOk THEN OperationCursor("OUT_OF_MEMORY")
  ELSE IF cursorType = "INDEX" /\ indexId = "none"
    THEN CursorThrown("BAD_PARAMETER")
  ELSE LET docs == indexScan_docs(st, cursorType, search, reverse, anyOrder) IN
       OperationCursorOn(SubSeq(docs, skip + 1, Len(docs)), limit, batchSize)

indexScan_iterator(st, cursorType, indexId, search, skip, limit, batchSize, reverse, anyOrder, iteratorOk) ==
  IF cursorType = "INDEX" /\ indexId = "none"
    THEN CursorThrown("BAD_PARAMETER")
  ELSE IF ~iteratorOk THEN OperationCursor("OUT_OF_MEMORY")
  ELSE LET docs == indexScan_docs(st, cursorType, search, reverse, anyOrder) IN
       OperationCursorOn(SubSeq(docs, skip + 1, Len(docs)), limit, batchSize)

indexScanWithoutLimitCheck(st, r, cursorType, indexId, search, skip, limit, batchSize, reverse, anyOrder, iteratorOk) ==
  IF isCoordinator(r) THEN CursorThrown("CLUSTER_ONLY_ON_DBSERVER")
  ELSE indexScan_iterator(st, cursorType, indexId, search, skip, limit, batchSize,
                          reverse, anyOrder, iteratorOk)

indexScan(st, r, cursorType, indexId, search, skip, limit, batchSize, reverse, anyOrder, iteratorOk) ==
  IF isCoordinator(r) THEN CursorThrown("CLUSTER_ONLY_ON_DBSERVER")
  ELSE IF limit = 0 THEN OperationCursor("NO_ERROR")
  ELSE indexScan_iterator(st, cursorType, indexId, search, skip, limit, batchSize,
                          reverse, anyOrder, iteratorOk)

indexScanForCondition(st, r, indexId, condition, limit, batchSize, reverse, iteratorOk) ==
  IF isCoordinator(r) THEN CursorThrown("CLUSTER_ONLY_ON_DBSERVER")
  ELSE IF limit = 0 THEN OperationCursor("NO_ERROR")
  ELSE IF indexId = "none" THEN CursorThrown("BAD_PARAMETER")
  ELSE IF ~iteratorOk THEN OperationCursor("OUT_OF_MEMORY")
  ELSE OperationCursorOn(IndexIterator(st, condition, reverse), limit, batchSize)

getMore(cursor, fails) ==
  LET n == Min(cursor.batchSize, Min(cursor.limit, Len(cursor.docs))) IN
  IF fails
    THEN [code |-> "INTERNAL", batch |-> <<>>,
          cursor |-> [cursor EXCEPT !.hasMore = FALSE]]
    ELSE [code |-> "NO_ERROR", batch |-> SubSeq(cursor.docs, 1, n),
          cursor |-> [cursor EXCEPT
                        !.docs = SubSeq(@, n + 1, Len(@)),
                        !.limit = @ - n,
                        !.hasMore = (n = cursor.batchSize /\ cursor.limit - n > 0)]]

RECURSIVE Emit(_, _, _, _, _)
Emit(st, batch, i, kind, prefix) ==
  IF i > Len(batch) THEN st
  ELSE Emit([st EXCEPT !.payload =
               Append(@, Item(kind, prefix \o batch[i], batch[i],
                              IF kind = "document" THEN st.store[batch[i]] ELSE 0,
                              0, FALSE, FALSE, "NO_ERROR"))],
            batch, i + 1, kind, prefix)

\* while (cursor->hasMore()) { cursor->getMore(result); if (result->failed()) return
RECURSIVE drain(_, _, _, _, _, _)
drain(st, cursor, n, failAt, kind, prefix) ==
  IF ~cursor.hasMore THEN [st |-> st, res |-> "NO_ERROR", failed |-> FALSE]
  ELSE LET g == getMore(cursor, n = failAt) IN
       IF g.code # "NO_ERROR" THEN [st |-> st, res |-> g.code, failed |-> TRUE]
       ELSE drain(Emit(st, g.batch, 1, kind, prefix), g.cursor, n + 1, failAt,
                  kind, prefix)

Returned(st, code) ==
  [st |-> st, res |-> code, thrown |-> FALSE, outcomes |-> <<>>]

(***************************************************************************)
(* anyLocal, allLocal, allKeysLocal, countLocal, truncateLocal             *)
(***************************************************************************)
\* the common body of anyLocal, allLocal and allKeysLocal
scanLocal(st, r, cursorType, skip, limit, anyOrder, lockRes, failAt, kind, prefix) ==
  LET l == lock(orderDitch(st), lockRes) IN
  IF l.res # "NO_ERROR" THEN Returned(l.st, l.res)
  ELSE LET cursor == indexScan(l.st, r, cursorType, "none", {}, skip, limit,
                               BatchSize, FALSE, anyOrder, TRUE)
           d == drain(l.st, cursor, 1, failAt, kind, prefix) IN
       IF cursor.thrown THEN Thrown(l.st, cursor.code)
       ELSE IF d.failed THEN Returned(d.st, d.res)
       ELSE LET u == unlock(d.st) IN
            IF u.res # "NO_ERROR" THEN Returned(u.st, u.res)
            ELSE Returned(u.st, "NO_ERROR")

anyLocal(st, r, skip, limit, anyOrder, lockRes, failAt) ==
  scanLocal(st, r, "ANY", skip, limit, anyOrder, lockRes, failAt, "document",
            CollName \o <<"/">>)

allLocal(st, r, skip, limit, lockRes, failAt) ==
  scanLocal(st, r, "ALL", skip, limit, KeyOrder, lockRes, failAt, "document",
            CollName \o <<"/">>)

NoLimit == 1000000     \* UINT64_MAX: more than any collection holds

KeyPrefix(type) ==
  IF type = "key" THEN <<>>
  ELSE IF type = "id" THEN CollName \o <<"/">>
  ELSE <<"/_db/">> \o DbName \o <<"/_api/document/">> \o CollName \o <<"/">>

allKeysLocal(st, r, type, lockRes, failAt) ==
  scanLocal(st, r, "ALL", 0, NoLimit, KeyOrder, lockRes, failAt, "string",
            KeyPrefix(type))

countLocal(st, lockRes) ==
  LET l == lock(st, lockRes) IN
  IF l.res # "NO_ERROR" THEN Returned(l.st, l.res)
  ELSE LET n == Len(Present(l.st.store, KeyOrder, 1))
           u == unlock(l.st) IN
       IF u.res # "NO_ERROR" THEN Returned(u.st, u.res)
       ELSE Returned([u.st EXCEPT !.payload =
                        <<Item("number", <<>>, <<>>, n, 0, FALSE, FALSE, "NO_ERROR")>>],
                     "NO_ERROR")

\* primaryIndex->invokeOnAllElementsForRemoval(callback): the callback throws
\* the error of a removal that fails
RECURSIVE removeAll(_, _, _, _, _)
removeAll(st, docs, i, options, failAt) ==
  IF i > Len(docs) THEN [st |-> st, res |-> "NO_ERROR"]
  ELSE LET r == document_remove(st, Obj(Str(docs[i]), st.store[docs[i]]), options,
                                FALSE, i = failAt) IN
       IF r.res # "NO_ERROR" THEN [st |-> r.st, res |-> r.res]
       ELSE removeAll(r.st, docs, i + 1, options, failAt)

truncateLocalKeepsLockOnError(st, options, lockRes, failAt) ==
  LET l == lock(orderDitch(st), lockRes) IN
  IF l.res # "NO_ERROR" THEN Returned(l.st, l.res)
  ELSE LET r == removeAll(l.st, Present(l.st.store, KeyOrder, 1), 1,
                          [options EXCEPT !.ignoreRevs = TRUE], failAt) IN
       IF r.res # "NO_ERROR" THEN Returned(r.st, r.res)
       ELSE LET u == unlock(r.st) IN
            IF u.res # "NO_ERROR" THEN Returned(u.st, u.res)
            ELSE Returned(u.st, "NO_ERROR")

truncateLocal(st, options, lockRes, failAt) ==
  LET l == lock(orderDitch(st), lockRes) IN
  IF l.res # "NO_ERROR" THEN Returned(l.st, l.res)
  ELSE LET r == removeAll(l.st, Present(l.st.store, KeyOrder, 1), 1,
                          [options EXCEPT !.ignoreRevs = TRUE], failAt) IN
       IF r.res # "NO_ERROR" THEN Returned(unlock(r.st).st, r.res)
       ELSE LET u == unlock(r.st) IN
            IF u.res # "NO_ERROR" THEN Returned(u.st, u.res)
            ELSE Returned(u.st, "NO_ERROR")

(***************************************************************************)
(* The cluster: the role of this server (ServerState), the followers of    *)
(* the shard (FollowerInfo) and the requests sent through ClusterComm.     *)
(***************************************************************************)
Servers == {"F1", "F2"}
\* the follower lists a shard can have: no server twice
FollowerLists ==
  {<<>>} \cup {<<f>> : f \in Servers}
    \cup {<<f, g>> : <<f, g>> \in {p \in Servers \X Servers : p[1] # p[2]}}

ReplicationTimeout == 60     \* seconds given to performRequests

\* what a request looks like when performRequests returns: answered with a
\* response code, failed in the communication layer, or not answered in time
Replies ==
  {[done |-> TRUE, status |-> "CL_COMM_RECEIVED", answer_code |-> c] :
     c \in {"OK", "CREATED", "ACCEPTED", "SERVER_ERROR"}}
    \cup {[done |-> TRUE, status |-> "CL_COMM_ERROR", answer_code |-> "NONE"],
          [done |-> FALSE, status |-> "CL_COMM_TIMEOUT", answer_code |-> "NONE"]}

\* the answer of a shard that was not asked
NoResponse ==
  [res |-> "CLUSTER_TIMEOUT", responseCode |-> "SERVER_ERROR",
   body |-> [parses |-> FALSE, errorNum |-> "NONE", errorMessage |-> "NONE"]]

NoNet ==
  [requests |-> <<>>, dropped |-> <<>>, before |-> <<>>, timeout |-> 0,
   response |-> NoResponse]

\* VPackSlice::toJson
RECURSIVE toJson(_), joinJson(_, _)
joinJson(items, i) ==
  IF i > Len(items) THEN <<>>
  ELSE (IF i > 1 THEN <<",">> ELSE <<>>) \o toJson(items[i]) \o joinJson(items, i + 1)

toJson(v) ==
  IF v.type = "string" THEN <<"\"">> \o v.str \o <<"\"">>
  ELSE IF v.type = "number" THEN <<ToString(v.num)>>
  ELSE IF v.type = "object"
    THEN <<"{", "\"_key\"", ":">> \o toJson(v.key)
           \o (IF v.rev # 0
                 THEN <<",", "\"_rev\"", ":", "\"", ToString(v.rev), "\"">>
                 ELSE <<>>)
           \o <<"}">>
  ELSE <<"[">> \o joinJson(v.items, 1) \o <<"]">>

\* ClusterCommRequest(destination, POST, path, body)
ClusterCommRequest(destination, requestType, path, body) ==
  [destination |-> destination, requestType |-> requestType, path |-> path,
   body |-> body, done |-> FALSE,
   result |-> [serverID |-> "", status |-> "CL_COMM_SUBMITTED",
               answer_code |-> "NONE"]]

RECURSIVE CountGood(_, _)
CountGood(requests, i) ==
  IF i > Len(requests) THEN 0
  ELSE (IF /\ requests[i].done
           /\ requests[i].result.status = "CL_COMM_RECEIVED"
           /\ requests[i].result.answer_code \in {"CREATED", "ACCEPTED"}
          THEN 1 ELSE 0) + CountGood(requests, i + 1)

\* ClusterComm::performRequests: every request ends with what its server did
\* within the timeout; nrGood counts the requests that were answered with
\* CREATED or ACCEPTED
performRequests(requests, timeout, servers, replies) ==
  LET after == [i \in 1..Len(requests) |->
                  [requests[i] EXCEPT
                     !.done = replies[servers[i]].done,
                     !.result = [serverID |-> servers[i],
                                 status |-> replies[servers[i]].status,
                                 answer_code |-> replies[servers[i]].answer_code]]] IN
  [requests |-> after, nrGood |-> CountGood(after, 1), timeout |-> timeout]

\* FollowerInfo::remove
FollowerInfo_remove(fol, serverID) == SelectSeq(fol, LAMBDA f : f # serverID)

RECURSIVE dropFollowersOnlyUnanswered(_, _, _)
dropFollowersOnlyUnanswered(acc, requests, i) ==
  IF i > Len(requests) THEN acc
  ELSE dropFollowersOnlyUnanswered(
         IF ~requests[i].done
           THEN [followers |-> FollowerInfo_remove(acc.followers,
                                                   requests[i].result.serverID),
                 dropped |-> Append(acc.dropped, requests[i].result.serverID)]
           ELSE acc,
         requests, i + 1)

\* insertLocal: "we drop all followers that were not successful"
RECURSIVE dropFollowers(_, _, _)
dropFollowers(acc, requests, i) ==
  IF i > Len(requests) THEN acc
  ELSE dropFollowers(
         IF \/ ~requests[i].done
            \/ requests[i].result.status # "CL_COMM_RECEIVED"
            \/ /\ requests[i].result.answer_code # "ACCEPTED"
               /\ requests[i].result.answer_code # "CREATED"
           THEN [followers |-> FollowerInfo_remove(acc.followers,
                                                   requests[i].result.serverID),
                 dropped |-> Append(acc.dropped, requests[i].result.serverID)]
           ELSE acc,
         requests, i + 1)

\* insertLocal, after the local write: if (ServerState::instance()->isDBServer())
insertLocal_replicate(r, fol, value, replies) ==
  LET quiet == [followers |-> fol, net |-> [NoNet EXCEPT !.before = fol]] IN
  IF ~isDBServer(r) THEN quiet
  ELSE IF Len(fol) = 0 THEN quiet
  ELSE LET path == <<"/_db/">> \o DbName \o <<"/_api/document/">> \o CollName
           body == toJson(value)
           requests == [i \in 1..Len(fol) |->
                          ClusterCommRequest(<<"server:", fol[i]>>, "POST", path, body)]
           p == performRequests(requests, ReplicationTimeout, fol, replies)
           d == IF p.nrGood < Len(fol)
                  THEN dropFollowers([followers |-> fol, dropped |-> <<>>],
                                     p.requests, 1)
                  ELSE [followers |-> fol, dropped |-> <<>>] IN
       [followers |-> d.followers,
        net |-> [NoNet EXCEPT !.requests = p.requests, !.dropped = d.dropped,
                              !.before = fol, !.timeout = p.timeout]]

insertLocalFailsWithFollower(st, value, options, r, fol, replies) ==
  LET w == insertLocal_write(st, value, options)
      n == insertLocal_replicate(r, fol, value, replies) IN
  [acc |-> IF n.net.dropped # <<>> THEN [w EXCEPT !.res = "INTERNAL"] ELSE w,
   followers |-> n.followers, net |-> n.net]

\* Transaction::insertLocal: the local write, then the replication
insertLocal(st, value, options, r, fol, replies) ==
  LET w == insertLocal_write(st, value, options)
      n == insertLocal_replicate(r, fol, value, replies) IN
  [acc |-> w, followers |-> n.followers, net |-> n.net]

(***************************************************************************)
(* The coordinator variants: one request to the responsible shard, whose   *)
(* answer (the return code of the dispatch, the HTTP response code and the *)
(* body) is mapped to an OperationResult.                                  *)
(***************************************************************************)
ResponseCodes ==
  {"OK", "CREATED", "ACCEPTED", "BAD", "NOT_FOUND", "CONFLICT",
   "PRECONDITION_FAILED", "SERVER_ERROR"}

\* a response body: text that is no JSON, an object without error attributes,
\* an object with errorNum and errorMessage
Bodies ==
  {[parses |-> FALSE, errorNum |-> "NONE", errorMessage |-> "NONE"],
   [parses |-> TRUE, errorNum |-> "NONE", errorMessage |-> "NONE"],
   [parses |-> TRUE, errorNum |-> "ARANGO_DOCUMENT_KEY_BAD",
    errorMessage |-> "illegal document key"]}

Responses ==
  {[res |-> "NO_ERROR", responseCode |-> c, body |-> b] :
     c \in ResponseCodes, b \in Bodies}
    \cup {NoResponse}

\* TRI_ExtractRevisionId: the _rev of an object as a number, 0 when there is none
TRI_ExtractRevisionId(slice) ==
  IF slice.type = "object" THEN slice.rev ELSE 0

\* the request the shard dispatch (getDocumentOnCoordinator and the like) sends
ShardRequest(requestType, key, expectedRevision, body) ==
  [destination |-> <<"shard">>, requestType |-> requestType,
   path |-> <<"/_db/">> \o DbName \o <<"/_api/document/">> \o CollName
              \o (IF key = <<>> THEN <<>> ELSE <<"/">> \o key),
   expectedRevision |-> expectedRevision, body |-> body]

\* OperationResult(code), OperationResult(code, message),
\* OperationResult(buffer, handler, message, code, wasSynchronous)
OperationResult(st, code, message, wasSynchronous) ==
  [st |-> st, res |-> code, thrown |-> FALSE, outcomes |-> <<>>,
   errorMessage |-> message, wfs |-> wasSynchronous]

WithBuffer(st, body) ==
  [st EXCEPT !.payload =
     <<Item("body", <<>>, <<>>, 0, 0, FALSE, FALSE, body.errorNum)>>]

Dispatched(acc, request) == [acc |-> acc, requests |-> <<request>>]
NotDispatched(acc) == [acc |-> acc, requests |-> <<>>]

CoordThrown(st, code) ==
  NotDispatched([st |-> st, res |-> code, thrown |-> TRUE, outcomes |-> <<>>,
                 errorMessage |-> "", wfs |-> FALSE])

DBServerResponseBadIgnoresBody(st, resultBody) ==
  OperationResult(st, "INTERNAL", "JSON sent to DBserver was bad", FALSE)

\* DBServerResponseBad(std::shared_ptr<VPackBuilder>)
DBServerResponseBad(st, resultBody) ==
  OperationResult(st,
    IF resultBody.errorNum = "NONE" THEN "INTERNAL" ELSE resultBody.errorNum,
    IF resultBody.errorMessage = "NONE" THEN "JSON sent to DBserver was bad"
                                        ELSE resultBody.errorMessage,
    FALSE)

\* DBServerResponseBad(std::string const&)
DBServerResponseBadString(st, resultBody) ==
  IF resultBody.parses THEN DBServerResponseBad(st, resultBody)
  ELSE OperationResult(st, "INTERNAL", "JSON sent to DBserver was bad", FALSE)

\* try { parser.parse(resultBody); return OperationResult(buf, ..., code, sync) }
\* catch (VPackException&) { return OperationResult(TRI_ERROR_INTERNAL, message) }
ParsedResultNeverSynchronous(st, resultBody, code, wasSynchronous) ==
  IF resultBody.parses
    THEN OperationResult(WithBuffer(st, resultBody), code, "", FALSE)
    ELSE OperationResult(st, "INTERNAL", "JSON from DBserver not parseable", FALSE)

ParsedResult(st, resultBody, code, wasSynchronous) ==
  IF resultBody.parses
    THEN OperationResult(WithBuffer(st, resultBody), code, "", wasSynchronous)
    ELSE OperationResult(st, "INTERNAL", "JSON from DBserver not parseable", FALSE)

documentCoordinator(st, value, options, response) ==
  IF value.type = "array" THEN CoordThrown(st, "NOT_IMPLEMENTED")
  ELSE LET key == extractKey(value) IN
  IF key = <<>>
    THEN NotDispatched(OperationResult(st, "ARANGO_DOCUMENT_KEY_BAD", "", FALSE))
  ELSE LET expectedRevision == TRI_ExtractRevisionId(value)
           responseCode == response.responseCode IN
  Dispatched(
    IF response.res = "NO_ERROR"
      THEN IF responseCode \in {"OK", "PRECONDITION_FAILED"}
             THEN ParsedResult(st, response.body,
                               IF responseCode = "OK" THEN "NO_ERROR"
                                                      ELSE "ARANGO_CONFLICT",
                               FALSE)
           ELSE IF responseCode = "NOT_FOUND"
             THEN OperationResult(st, "ARANGO_DOCUMENT_NOT_FOUND", "", FALSE)
           ELSE OperationResult(st, "INTERNAL", "", FALSE)
      ELSE OperationResult(st, response.res, "", FALSE),
    ShardRequest("GET", key, expectedRevision, <<>>))

insertCoordinator(st, value, options, response) ==
  LET responseCode == response.responseCode IN
  Dispatched(
    IF response.res = "NO_ERROR"
      THEN IF responseCode \in {"ACCEPTED", "CREATED"}
             THEN OperationResult(WithBuffer(st, response.body), "NO_ERROR", "",
                                  responseCode = "CREATED")
           ELSE IF responseCode = "PRECONDITION_FAILED"
             THEN OperationResult(st, "ARANGO_CONFLICT", "", FALSE)
           ELSE IF responseCode = "BAD"
             THEN DBServerResponseBad(st, response.body)
           ELSE IF responseCode = "NOT_FOUND"
             THEN OperationResult(st, "ARANGO_COLLECTION_NOT_FOUND", "", FALSE)
           ELSE IF responseCode = "CONFLICT"
             THEN OperationResult(st, "ARANGO_UNIQUE_CONSTRAINT_VIOLATED", "", FALSE)
           ELSE OperationResult(st, "INTERNAL", "", FALSE)
      ELSE OperationResult(st, response.res, "", FALSE),
    ShardRequest("POST", <<>>, 0, toJson(value)))

modifyCoordinator_switchNoFallThrough(st, response) ==
  LET responseCode == response.responseCode IN
  IF responseCode = "CONFLICT"
    THEN OperationResult(st, "ARANGO_UNIQUE_CONSTRAINT_VIOLATED", "", FALSE)
  ELSE IF responseCode \in {"PRECONDITION_FAILED", "ACCEPTED", "CREATED"}
    THEN ParsedResult(st, response.body,
                      IF responseCode = "PRECONDITION_FAILED"
                        THEN "ARANGO_CONFLICT" ELSE "NO_ERROR",
                      responseCode = "CREATED")
  ELSE IF responseCode = "BAD" THEN DBServerResponseBadString(st, response.body)
  ELSE IF responseCode = "NOT_FOUND"
    THEN OperationResult(st, "ARANGO_DOCUMENT_NOT_FOUND", "", FALSE)
  ELSE OperationResult(st, "INTERNAL", "", FALSE)

\* the switch shared by updateCoordinator and replaceCoordinator
modifyCoordinator_switch(st, response) ==
  LET responseCode == response.responseCode
      errorCode == IF responseCode = "CONFLICT"
                     THEN "ARANGO_UNIQUE_CONSTRAINT_VIOLATED"
                   ELSE IF responseCode = "PRECONDITION_FAILED"
                     THEN "ARANGO_CONFLICT"
                   ELSE "NO_ERROR" IN
  IF responseCode \in {"CONFLICT", "PRECONDITION_FAILED", "ACCEPTED", "CREATED"}
    THEN ParsedResult(st, response.body, errorCode, responseCode = "CREATED")
  ELSE IF responseCode = "BAD" THEN DBServerResponseBadString(st, response.body)
  ELSE IF responseCode = "NOT_FOUND"
    THEN OperationResult(st, "ARANGO_DOCUMENT_NOT_FOUND", "", FALSE)
  ELSE OperationResult(st, "INTERNAL", "", FALSE)

modifyCoordinator(st, newValue, options, response, isPatch, arrayError) ==
  IF newValue.type = "array" THEN CoordThrown(st, arrayError)
  ELSE LET key == extractKey(newValue) IN
  IF key = <<>>
    THEN NotDispatched(OperationResult(st, "ARANGO_DOCUMENT_KEY_BAD", "", FALSE))
  ELSE LET expectedRevision ==
             IF options.ignoreRevs THEN 0 ELSE TRI_ExtractRevisionId(newValue) IN
  Dispatched(
    IF response.res = "NO_ERROR"
      THEN modifyCoordinator_switch(st, response)
      ELSE OperationResult(st, response.res, "", FALSE),
    ShardRequest(IF isPatch THEN "PATCH" ELSE "PUT", key, expectedRevision,
                 toJson(newValue)))

updateCoordinator(st, newValue, options, response) ==
  modifyCoordinator(st, newValue, options, response, TRUE, "NOT_IMPLEMENTED")

replaceCoordinatorNotImplemented(st, newValue, options, response) ==
  modifyCoordinator(st, newValue, options, response, FALSE, "NOT_IMPLEMENTED")

replaceCoordinator(st, newValue, options, response) ==
  modifyCoordinator(st, newValue, options, response, FALSE,
                    "ARANGO_DOCUMENT_TYPE_INVALID")

removeCoordinator(st, value, options, response) ==
  IF value.type = "array" THEN CoordThrown(st, "NOT_IMPLEMENTED")
  ELSE LET key == extractKey(value) IN
  IF key = <<>>
    THEN NotDispatched(OperationResult(st, "ARANGO_DOCUMENT_KEY_BAD", "", FALSE))
  ELSE LET expectedRevision ==
             IF ~options.ignoreRevs THEN TRI_ExtractRevisionId(value) ELSE 0
           responseCode == response.responseCode IN
  Dispatched(
    IF response.res = "NO_ERROR"
      THEN IF responseCode \in {"OK", "ACCEPTED", "PRECONDITION_FAILED"}
             THEN ParsedResult(st, response.body,
                               IF responseCode = "PRECONDITION_FAILED"
                                 THEN "ARANGO_CONFLICT" ELSE "NO_ERROR",
                               responseCode # "ACCEPTED")
           ELSE IF responseCode = "BAD"
             THEN DBServerResponseBadString(st, response.body)
           ELSE IF responseCode = "NOT_FOUND"
             THEN OperationResult(st, "ARANGO_DOCUMENT_NOT_FOUND", "", FALSE)
           ELSE OperationResult(st, "INTERNAL", "", FALSE)
      ELSE OperationResult(st, response.res, "", FALSE),
    ShardRequest("DELETE", key, expectedRevision, <<>>))

(***************************************************************************)
(* The public operations, inside a RUNNING transaction: document, insert,  *)
(* update, replace and remove on every role, the others on a               *)
(* non-coordinator.                                                        *)
(***************************************************************************)
LockResults == {"NO_ERROR", "LOCK_TIMEOUT"}

NoOptions ==
  [ignoreRevs |-> FALSE, silent |-> FALSE, waitForSync |-> FALSE,
   returnOld |-> FALSE, returnNew |-> FALSE]

NoResult ==
  [op |-> "none", value |-> Num(0), options |-> NoOptions,
   pre |-> [k \in Keys |-> 0], code |-> "NO_ERROR", thrown |-> FALSE,
   payload |-> <<>>, counts |-> NoCounts, waitForSync |-> FALSE, events |-> <<>>,
   outcomes |-> <<>>, errorMessage |-> ""]

Finish(op, value, options, acc, wfs) ==
  /\ result.op = "none"
  /\ store' = acc.st.store
  /\ locked' = acc.st.locked
  /\ result' = [op |-> op, value |-> value, options |-> options, pre |-> store,
                code |-> acc.res, thrown |-> acc.thrown,
                payload |-> acc.st.payload, counts |-> acc.st.counts,
                waitForSync |-> wfs, events |-> acc.st.events,
                outcomes |-> acc.outcomes,
                errorMessage |-> IF "errorMessage" \in DOMAIN acc
                                   THEN acc.errorMessage ELSE ""]
  /\ UNCHANGED <<lifeVars, planVars, codecVars, debugVars, lockVars>>

\* the caller takes the OperationResult
Return ==
  /\ result.op # "none"
  /\ result' = NoResult
  /\ net' = NoNet
  /\ UNCHANGED <<lifeVars, store, locked, role, followers, planVars, codecVars,
                 debugVars, lockVars>>

\* an operation that sends no request, and one that sent requests to the shard
Silent ==
  /\ net' = [NoNet EXCEPT !.before = followers]
  /\ UNCHANGED <<role, followers>>

Sent(requests, response) ==
  /\ net' = [NoNet EXCEPT !.before = followers, !.requests = requests,
                          !.response = IF requests = <<>> THEN NoResponse
                                                          ELSE response]
  /\ UNCHANGED <<role, followers>>

\* what the servers around this one answer during an operation: nothing
NoEnv ==
  [replies |-> [f \in Servers |->
                  [done |-> FALSE, status |-> "CL_COMM_TIMEOUT",
                   answer_code |-> "NONE"]],
   response |-> NoResponse]

Now == Fresh(store, locked)

document(value, options, env) ==
  IF value.type \notin {"object", "array"}
    THEN /\ Finish("document", value, options,
                   Thrown(Now, "ARANGO_DOCUMENT_TYPE_INVALID"), FALSE)
         /\ Silent
  ELSE IF isCoordinator(role)
    THEN LET c == documentCoordinator(Now, value, options, env.response) IN
         /\ Finish("document", value, options, c.acc, c.acc.wfs)
         /\ Sent(c.requests, env.response)
  ELSE /\ Finish("document", value, options, documentLocal(Now, value, options),
                 options.waitForSync)
       /\ Silent

insert(value, options, env) ==
  IF value.type \notin {"object", "array"}
    THEN /\ Finish("insert", value, options,
                   Thrown(Now, "ARANGO_DOCUMENT_TYPE_INVALID"), FALSE)
         /\ Silent
  ELSE IF isCoordinator(role)
    THEN LET c == insertCoordinator(Now, value, options, env.response) IN
         /\ Finish("insert", value, options, c.acc, c.acc.wfs)
         /\ Sent(c.requests, env.response)
  ELSE LET r == insertLocal(Now, value, options, role, followers, env.replies) IN
       /\ Finish("insert", value, options, r.acc, options.waitForSync)
       /\ followers' = r.followers
       /\ net' = r.net
       /\ UNCHANGED role

update(newValue, options, lockRes, env) ==
  IF newValue.type \notin {"object", "array"}
    THEN /\ Finish("update", newValue, options,
                   Thrown(Now, "ARANGO_DOCUMENT_TYPE_INVALID"), FALSE)
         /\ Silent
  ELSE IF isCoordinator(role)
    THEN LET c == updateCoordinator(Now, newValue, options, env.response) IN
         /\ Finish("update", newValue, options, c.acc, c.acc.wfs)
         /\ Sent(c.requests, env.response)
  ELSE /\ Finish("update", newValue, options, modifyLocal(Now, newValue, options, "update", lockRes),
                 options.waitForSync)
       /\ Silent

replace(newValue, options, lockRes, env) ==
  IF newValue.type \notin {"object", "array"}
    THEN /\ Finish("replace", newValue, options,
                   Thrown(Now, "ARANGO_DOCUMENT_TYPE_INVALID"), FALSE)
         /\ Silent
  ELSE IF isCoordinator(role)
    THEN LET c == replaceCoordinator(Now, newValue, options, env.response) IN
         /\ Finish("replace", newValue, options, c.acc, c.acc.wfs)
         /\ Sent(c.requests, env.response)
  ELSE /\ Finish("replace", newValue, options, modifyLocal(Now, newValue, options, "replace", lockRes),
                 options.waitForSync)
       /\ Silent

remove(value, options, env) ==
  IF value.type \notin {"object", "array", "string"}
    THEN /\ Finish("remove", value, options,
                   Thrown(Now, "ARANGO_DOCUMENT_TYPE_INVALID"), FALSE)
         /\ Silent
  ELSE IF isCoordinator(role)
    THEN LET c == removeCoordinator(Now, value, options, env.response) IN
         /\ Finish("remove", value, options, c.acc, c.acc.wfs)
         /\ Sent(c.requests, env.response)
  ELSE /\ Finish("remove", value, options, removeLocal(Now, value, options),
                 options.waitForSync)
       /\ Silent

any(skip, limit, anyOrder, lockRes, failAt) ==
  /\ Finish("any", Num(limit), NoOptions,
            anyLocal(Now, role, skip, limit, anyOrder, lockRes, failAt), FALSE)
  /\ Silent

all(skip, limit, lockRes, failAt) ==
  /\ Finish("all", Num(limit), NoOptions, allLocal(Now, role, skip, limit, lockRes, failAt),
            FALSE)
  /\ Silent

allKeys(type, lockRes, failAt) ==
  /\ Finish("allKeys", Str(<<type>>), NoOptions, allKeysLocal(Now, role, type, lockRes, failAt),
            FALSE)
  /\ Silent

count(lockRes) ==
  /\ Finish("count", Num(0), NoOptions, countLocal(Now, lockRes), FALSE)
  /\ Silent

truncate(options, lockRes, failAt) ==
  /\ Finish("truncate", Num(failAt), options,
            truncateLocal(Now, options, lockRes, failAt), FALSE)
  /\ Silent

(***************************************************************************)
(* Two facades, each with a RUNNING transaction of its own, writing the    *)
(* same collection.  The engine has one write lock for the collection:     *)
(* holder is the facade it is taken for, 0 when it is free.  A facade      *)
(* holds it through lock() (isLocked is then true), or the engine takes it *)
(* for one document when the lock flag of the write is set.                *)
(***************************************************************************)
Writers == {1, 2}

WriteOps == {"insert", "update", "replace", "remove", "truncate"}

IdleWriter == [pc |-> "idle", op |-> "none", locked |-> FALSE, flag |-> FALSE, left |-> 0]

NoLock == [holder |-> 0, writer |-> [f \in Writers |-> IdleWriter], reacquired |-> FALSE]

\* TRI_LockCollectionTransaction: nothing to do when the transaction has the lock
TRI_LockCollectionTransaction(w, f) ==
  IF w.writer[f].locked THEN w
  ELSE [w EXCEPT !.holder = f, !.writer[f].locked = TRUE]

\* TRI_UnlockCollectionTransaction
TRI_UnlockCollectionTransaction(w, f) ==
  IF w.writer[f].locked THEN [w EXCEPT !.holder = 0, !.writer[f].locked = FALSE]
  ELSE w

\* the engine can give the lock to f, or f has it already
Grantable(w, f) == w.writer[f].locked \/ w.holder = 0

\* the lock flag a write passes to the engine: !isLocked(document, WRITE),
\* and the literal false of truncateLocal's callback
lockFlagAlwaysFalse(w, f) == FALSE

lockFlag(w, f) ==
  IF w.writer[f].op = "truncate" THEN FALSE ELSE ~isLocked(w.writer[f])

\* after the last document: truncateLocal unlocks, the others just return
endWrite(w, f) ==
  LET w1 == IF w.writer[f].op = "truncate" THEN TRI_UnlockCollectionTransaction(w, f)
            ELSE w IN
  [w1 EXCEPT !.writer[f].pc = "idle", !.writer[f].op = "none",
             !.writer[f].flag = FALSE, !.writer[f].left = 0]

\* the next document of the operation, if there is one
nextDocument(w, f) ==
  IF w.writer[f].left = 0 THEN endWrite(w, f)
  ELSE [w EXCEPT !.writer[f].pc = "document", !.writer[f].flag = lockFlag(w, f)]

\* insertLocal, modifyLocal, removeLocal, truncateLocal are entered:
\* modifyLocal and truncateLocal lock first
startWrite(f, op, n) ==
  /\ wlock.writer[f].pc = "idle"
  /\ op = "truncate" \/ n > 0
  /\ LET w1 == [wlock EXCEPT !.writer[f].op = op, !.writer[f].left = n] IN
     wlock' = IF op \in {"insert", "remove"} THEN nextDocument(w1, f)
              ELSE [w1 EXCEPT !.writer[f].pc = "lock"]
  /\ UNCHANGED <<lifeVars, crudVars, clusterVars, planVars, codecVars, debugVars>>

\* lock(trxCollection(cid), TRI_TRANSACTION_WRITE) of modifyLocal and
\* truncateLocal: the operation returns the error when the lock is refused
lockForWrite(f, granted) ==
  /\ wlock.writer[f].pc = "lock"
  /\ granted => Grantable(wlock, f)
  /\ ~granted => ~wlock.writer[f].locked
  /\ wlock' = IF granted
                THEN nextDocument(TRI_LockCollectionTransaction(wlock, f), f)
                ELSE [wlock EXCEPT !.writer[f] = IdleWriter]
  /\ UNCHANGED <<lifeVars, crudVars, clusterVars, planVars, codecVars, debugVars>>

\* document->insert / update / replace / remove begins: with the lock flag
\* set the engine takes the write lock for this document, and waits for it
beginDocument(f) ==
  /\ wlock.writer[f].pc = "document"
  /\ wlock.writer[f].flag => wlock.holder \in {0, f}
  /\ wlock' = [wlock EXCEPT !.writer[f].pc = "write",
                            !.holder = IF wlock.writer[f].flag THEN f ELSE @,
                            !.reacquired = @ \/ (wlock.writer[f].flag /\ wlock.holder = f)]
  /\ UNCHANGED <<lifeVars, crudVars, clusterVars, planVars, codecVars, debugVars>>

\* the document is written; the engine releases the lock it took
endDocument(f) ==
  /\ wlock.writer[f].pc = "write"
  /\ LET w1 == [wlock EXCEPT !.holder = IF wlock.writer[f].flag THEN 0 ELSE @,
                             !.writer[f].left = @ - 1] IN
     wlock' = nextDocument(w1, f)
  /\ UNCHANGED <<lifeVars, crudVars, clusterVars, planVars, codecVars, debugVars>>

\* Transaction::lock and Transaction::unlock called by the user of the facade
lockCollection(f) ==
  /\ wlock.writer[f].pc = "idle"
  /\ Grantable(wlock, f)
  /\ wlock' = TRI_LockCollectionTransaction(wlock, f)
  /\ UNCHANGED <<lifeVars, crudVars, clusterVars, planVars, codecVars, debugVars>>

unlockCollection(f) ==
  /\ wlock.writer[f].pc = "idle"
  /\ wlock' = TRI_UnlockCollectionTransaction(wlock, f)
  /\ UNCHANGED <<lifeVars, crudVars, clusterVars, planVars, codecVars, debugVars>>

(***************************************************************************)
(* The AQL condition tree.  An operand is an attribute access or expansion *)
(* on a variable, a constant value, a constant array (its members in       *)
(* order), or a function call (not constant).  The root is the sequence of *)
(* the members of the n-ary OR, each an n-ary AND of operators.            *)
(***************************************************************************)
Operand(kind, var, attr, value, items) == [kind |-> kind, var |-> var, attr |-> attr, value |-> value, items |-> items]

AttributeAccess(var, attr) == Operand("ATTRIBUTE_ACCESS", var, attr, 0, <<>>)

Expansion(var, attr) == Operand("EXPANSION", var, attr, 0, <<>>)

Value(v) == Operand("VALUE", "", "", v, <<>>)

Array(items) == Operand("ARRAY", "", "", 0, items)

FCall == Operand("FCALL", "", "", 0, <<>>)

NullNode == Operand("NULL", "", "", 0, <<>>)

Operator(type, lhs, rhs) == [type |-> type, members |-> <<lhs, rhs>>]

NaryAnd(members) == [type |-> "NARY_AND", members |-> members]

\* the member a clause has after changeMember(i, nullptr)
NullAnd == [type |-> "NULL", members |-> <<>>]

isComparisonOperator(node) ==
  node.type \in {"EQ", "NE", "LT", "LE", "GT", "GE", "IN", "NIN"}

isConstant(node) == node.kind \in {"VALUE", "ARRAY"}

isArray(node) == node.kind = "ARRAY"

isAttributeAccessForVariable(node) == node.kind \in {"ATTRIBUTE_ACCESS", "EXPANSION"}

\* Ast::createNodeArray and Ast::createNodeUnionizedArray: the members of
\* both arrays, each once, in ascending order
createNodeArray == Array(<<>>)

RECURSIVE Ascending(_)
Ascending(set) ==
  IF set = {} THEN <<>>
  ELSE LET least == CHOOSE x \in set : \A y \in set : x <= y IN
       <<least>> \o Ascending(set \ {least})

createNodeUnionizedArray(lhs, rhs) ==
  Array(Ascending({lhs.items[i] : i \in 1..Len(lhs.items)}
                    \cup {rhs.items[i] : i \in 1..Len(rhs.items)}))

\* std::string::compare on the names that occur
NameOrder == <<"a", "b", "d", "e">>

NameIndex(name) == CHOOSE i \in 1..Len(NameOrder) : NameOrder[i] = name

compare(l, r) ==
  IF l = r THEN 0 ELSE IF NameIndex(l) < NameIndex(r) THEN 0 - 1 ELSE 1

\* CompareAstNodes on constants: a number sorts before an array
CompareAstNodes(l, r) ==
  IF l.kind = "VALUE" /\ r.kind = "VALUE"
    THEN (IF l.value < r.value THEN 0 - 1 ELSE IF l.value > r.value THEN 1 ELSE 0)
  ELSE IF l.kind = r.kind THEN 0
  ELSE IF l.kind = "VALUE" THEN 0 - 1 ELSE 1

(***************************************************************************)
(* arangodb::aql::ConditionPart: the attribute, the operator seen from the *)
(* attribute's side, the constant, and the clause it came from.            *)
(***************************************************************************)
ReverseOperator(type) ==
  CASE type = "LT" -> "GT"
    [] type = "LE" -> "GE"
    [] type = "GT" -> "LT"
    [] type = "GE" -> "LE"
    [] OTHER -> type

ConditionPart(variable, attributeName, operatorNode, side, data) ==
  [variable |-> variable, attributeName |-> attributeName,
   operatorType |-> IF side = "ATTRIBUTE_LEFT" THEN operatorNode.type
                    ELSE ReverseOperator(operatorNode.type),
   valueNode |-> IF side = "ATTRIBUTE_LEFT" THEN operatorNode.members[2]
                 ELSE operatorNode.members[1],
   data |-> data]

lowerBound(part) ==
  IF part.operatorType \in {"GT", "GE", "EQ"} THEN part.valueNode
  ELSE IF part.operatorType = "IN" /\ isArray(part.valueNode) /\ Len(part.valueNode.items) > 0
    THEN Value(part.valueNode.items[1])
  ELSE NullNode

isLowerInclusive(part) ==
  \/ part.operatorType \in {"GE", "EQ"}
  \/ part.operatorType = "IN" /\ isArray(part.valueNode)

(***************************************************************************)
(* Transaction::sortOrs                                                    *)
(***************************************************************************)
\* the parts the first loop makes of clause i: none, or one
sortOrs_parts(sub, variable, i) ==
  LET operand == sub.members[1]
      lhs == operand.members[1]
      rhs == operand.members[2]
      left == IF /\ lhs.kind = "ATTRIBUTE_ACCESS"
                 /\ isConstant(rhs)
                 /\ isAttributeAccessForVariable(lhs)
                 /\ lhs.var = variable
                 /\ (operand.type # "IN" \/ isArray(rhs))
                THEN <<ConditionPart(lhs.var, lhs.attr, operand, "ATTRIBUTE_LEFT", i)>>
                ELSE <<>>
      right == IF /\ rhs.kind \in {"ATTRIBUTE_ACCESS", "EXPANSION"}
                  /\ isConstant(lhs)
                  /\ isAttributeAccessForVariable(rhs)
                  /\ rhs.var = variable
                 THEN <<ConditionPart(rhs.var, rhs.attr, operand, "ATTRIBUTE_RIGHT", i)>>
                 ELSE <<>> IN
  left \o right

\* a clause the first loop returns false for
sortOrs_rejects(sub) ==
  \/ Len(sub.members) # 1
  \/ ~isComparisonOperator(sub.members[1])
  \/ sub.members[1].type \in {"NE", "NIN"}

RECURSIVE sortOrs_allParts(_, _, _)
sortOrs_allParts(root, variable, i) ==
  IF i > Len(root) THEN <<>>
  ELSE sortOrs_parts(root[i], variable, i) \o sortOrs_allParts(root, variable, i + 1)

\* changeMember(1, node) on the operator of clause i
changeMember(root, i, node) == [root EXCEPT ![i].members[1].members[2] = node]

\* the loop that merges every IN array into the first one
RECURSIVE sortOrs_merge(_, _, _, _)
sortOrs_merge(parts, root, i, previousIn) ==
  IF i > Len(parts) THEN [parts |-> parts, root |-> root]
  ELSE IF parts[i].operatorType = "IN" /\ isArray(parts[i].valueNode)
    THEN IF previousIn # 0
           THEN LET emptyArray == createNodeArray
                    mergedIn == createNodeUnionizedArray(parts[previousIn].valueNode,
                                                         parts[i].valueNode) IN
                sortOrs_merge([parts EXCEPT ![previousIn].valueNode = mergedIn,
                                            ![i].valueNode = emptyArray],
                              changeMember(changeMember(root, previousIn, mergedIn),
                                           i, emptyArray),
                              i + 1, previousIn)
           ELSE sortOrs_merge(parts, root, i + 1, i)
  ELSE sortOrs_merge(parts, root, i + 1, previousIn)

\* the comparison function given to std::sort
sortOrs_less(lhs, rhs) ==
  LET ll == lowerBound(lhs)
      lr == lowerBound(rhs) IN
  IF compare(lhs.variable, rhs.variable) # 0
    THEN compare(lhs.variable, rhs.variable) < 0
  ELSE IF compare(lhs.attributeName, rhs.attributeName) # 0
    THEN compare(lhs.attributeName, rhs.attributeName) < 0
  ELSE IF ll = NullNode /\ lr # NullNode THEN TRUE
  ELSE IF ll # NullNode /\ lr = NullNode THEN FALSE
  ELSE IF ll # NullNode /\ lr # NullNode /\ CompareAstNodes(ll, lr) # 0
    THEN CompareAstNodes(ll, lr) < 0
  ELSE IF isLowerInclusive(lhs) /\ ~isLowerInclusive(rhs) THEN TRUE
  ELSE FALSE

Orderings(n) == {f \in [1..n -> 1..n] : \A i, j \in 1..n : f[i] = f[j] => i = j}

\* std::sort: the arrangements it may leave the parts in; the order of
\* parts that compare equal is not specified
std_sort(parts) ==
  {order \in Orderings(Len(parts)) :
     \A i, j \in 1..Len(parts) : i < j => ~sortOrs_less(parts[order[j]], parts[order[i]])}

\* a rebuild that takes the handles in the order they had
RECURSIVE sortOrs_rebuildHandlesInPlace(_, _, _, _, _)
sortOrs_rebuildHandlesInPlace(parts, order, root, usedIndexes, i) ==
  IF i > Len(parts) THEN [res |-> TRUE, root |-> <<>>, usedIndexes |-> <<>>]
  ELSE LET part == parts[order[i]]
           rest == sortOrs_rebuildHandlesInPlace(parts, order, root, usedIndexes, i + 1) IN
       IF part.operatorType = "IN" /\ isArray(part.valueNode) /\ Len(part.valueNode.items) = 0
         THEN rest
         ELSE [rest EXCEPT !.root = <<root[part.data]>> \o @,
                           !.usedIndexes = <<usedIndexes[i]>> \o @]

\* the rebuild: clauses whose IN array is empty are left out
RECURSIVE sortOrs_rebuild(_, _, _, _, _)
sortOrs_rebuild(parts, order, root, usedIndexes, i) ==
  IF i > Len(parts) THEN [res |-> TRUE, root |-> <<>>, usedIndexes |-> <<>>]
  ELSE LET part == parts[order[i]]
           rest == sortOrs_rebuild(parts, order, root, usedIndexes, i + 1) IN
       IF part.operatorType = "IN" /\ isArray(part.valueNode) /\ Len(part.valueNode.items) = 0
         THEN rest
         ELSE [rest EXCEPT !.root = <<root[part.data]>> \o @,
                           !.usedIndexes = <<usedIndexes[part.data]>> \o @]

\* TRUE when sortOrs gets as far as std::sort
sortOrs_sorts(root, variable, usedIndexes) ==
  /\ Len(root) >= 2
  /\ Len(root) = Len(usedIndexes)
  /\ \A i \in 1..Len(root) : ~sortOrs_rejects(root[i])
  /\ LET parts == sortOrs_allParts(root, variable, 1) IN
     /\ Len(parts) = Len(root)
     /\ \A i \in 2..Len(parts) :
          /\ parts[i - 1].variable = parts[i].variable
          /\ parts[i - 1].attributeName = parts[i].attributeName

\* the arrangements std::sort may produce in this call
sortOrs_orders(root, variable, usedIndexes) ==
  IF sortOrs_sorts(root, variable, usedIndexes)
    THEN std_sort(sortOrs_merge(sortOrs_allParts(root, variable, 1), root, 1, 0).parts)
    ELSE {[i \in 1..Len(root) |-> i]}

\* a sortOrs that compares the attributes of the parts after the merge
sortOrsMergesBeforeChecks(root, variable, usedIndexes, order) ==
  IF Len(root) < 2 THEN [res |-> TRUE, root |-> root, usedIndexes |-> usedIndexes]
  ELSE IF ~sortOrs_sorts(root, variable, usedIndexes)
    THEN IF /\ Len(root) = Len(usedIndexes)
            /\ \A i \in 1..Len(root) : ~sortOrs_rejects(root[i])
            /\ Len(sortOrs_allParts(root, variable, 1)) = Len(root)
           THEN [res |-> FALSE,
                 root |-> sortOrs_merge(sortOrs_allParts(root, variable, 1), root, 1, 0).root,
                 usedIndexes |-> usedIndexes]
           ELSE [res |-> FALSE, root |-> root, usedIndexes |-> usedIndexes]
  ELSE LET merged == sortOrs_merge(sortOrs_allParts(root, variable, 1), root, 1, 0) IN
       sortOrs_rebuild(merged.parts, order, merged.root, usedIndexes, 1)

sortOrs(root, variable, usedIndexes, order) ==
  IF Len(root) < 2 THEN [res |-> TRUE, root |-> root, usedIndexes |-> usedIndexes]
  ELSE IF ~sortOrs_sorts(root, variable, usedIndexes)
    THEN [res |-> FALSE, root |-> root, usedIndexes |-> usedIndexes]
  ELSE LET merged == sortOrs_merge(sortOrs_allParts(root, variable, 1), root, 1, 0) IN
       sortOrs_rebuild(merged.parts, order, merged.root, usedIndexes, 1)

\* no call of the planner, no call of the codec
NoPlan == [op |-> "none"]

NoCodec == [op |-> "none"]

(***************************************************************************)
(* sortOrs called on a root of up to MaxOr clauses over the variable d,    *)
(* and called again on what it left.                                       *)
(***************************************************************************)
Reference == "d"

Single(type, lhs, rhs) == NaryAnd(<<Operator(type, lhs, rhs)>>)

Clauses ==
  LET a == AttributeAccess("d", "a") IN
  { Single("EQ", a, Value(1)),
    Single("LT", a, Value(1)),
    Single("LT", a, Value(2)),
    Single("GT", a, Value(1)),
    Single("GE", a, Value(1)),
    Single("IN", a, Array(<<1>>)),
    Single("IN", a, Array(<<2>>)),
    Single("IN", a, Array(<<>>)),
    Single("NE", a, Value(1)),
    Single("EQ", AttributeAccess("d", "b"), Value(1)),
    Single("EQ", AttributeAccess("e", "a"), Value(1)),
    Single("LT", Value(1), a),
    Single("IN", Array(<<1>>), a),
    Single("EQ", Value(2), Expansion("d", "a")),
    Single("EQ", a, FCall),
    Single("IN", a, Value(1)),
    Single("FCALL", FCall, FCall),
    NaryAnd(<<Operator("EQ", a, Value(1)), Operator("EQ", a, Value(2))>>) }

Roots == UNION {[1..n -> Clauses] : n \in 0..MaxOr}

\* one handle for each clause, told apart by their numbers
Handles(n) == [i \in 1..n |-> i]

NoOutcome == [res |-> FALSE, root |-> <<>>, usedIndexes |-> <<>>]

callSortOrs(root, usedIndexes) ==
  /\ plan.op = "none"
  /\ \E order \in sortOrs_orders(root, Reference, usedIndexes) :
       plan' = [op |-> "sortOrs", root |-> root, usedIndexes |-> usedIndexes,
                applied |-> 1,
                first |-> sortOrs(root, Reference, usedIndexes, order),
                second |-> NoOutcome]
  /\ UNCHANGED <<lifeVars, crudVars, clusterVars, codecVars, debugVars, lockVars>>

callSortOrsAgain ==
  /\ plan.op = "sortOrs"
  /\ plan.applied = 1
  /\ plan.first.res
  /\ \E order \in sortOrs_orders(plan.first.root, Reference, plan.first.usedIndexes) :
       plan' = [plan EXCEPT !.applied = 2,
                            !.second = sortOrs(plan.first.root, Reference,
                                               plan.first.usedIndexes, order)]
  /\ UNCHANGED <<lifeVars, crudVars, clusterVars, codecVars, debugVars, lockVars>>

\* the caller has the outcome and goes on
planned ==
  /\ plan.op # "none"
  /\ plan' = NoPlan
  /\ UNCHANGED <<lifeVars, crudVars, clusterVars, codecVars, debugVars, lockVars>>

\* Body of a value that is computed once
With(value, Body(_)) == CHOOSE r \in {Body(x) : x \in {value}} : TRUE

(***************************************************************************)
(* arangodb::Index as the planner sees it: a hash index answers == and IN  *)
(* on its first field, a skiplist every comparison but != and NOT IN, and  *)
(* only a skiplist is sorted.  Costs are counted in halves, so that 1.5    *)
(* times the items is 3 times the items.                                   *)
(***************************************************************************)
Index(type, sparse, fields, estimatedCost) == [type |-> type, sparse |-> sparse, fields |-> fields, estimatedCost |-> estimatedCost]

isSorted(idx) == idx.type = "skiplist"

IndexOperators(idx) ==
  IF idx.type = "hash" THEN {"EQ", "IN"} ELSE {"EQ", "IN", "LT", "LE", "GT", "GE"}

\* the members of an AND node the index can answer
Usable(idx, node, reference) ==
  {i \in 1..Len(node.members) :
     /\ isComparisonOperator(node.members[i])
     /\ node.members[i].type \in IndexOperators(idx)
     /\ node.members[i].members[1].kind = "ATTRIBUTE_ACCESS"
     /\ node.members[i].members[1].var = reference
     /\ node.members[i].members[1].attr = idx.fields[1]
     /\ isConstant(node.members[i].members[2])}

supportsFilterCondition(idx, node, reference, itemsInIndex) ==
  LET usable == Usable(idx, node, reference) IN
  [supports |-> usable # {},
   estimatedItems |-> IF \E i \in usable : node.members[i].type = "EQ"
                        THEN (IF itemsInIndex > 0 THEN 1 ELSE 0)
                        ELSE itemsInIndex \div 2,
   estimatedCost |-> idx.estimatedCost]

RECURSIVE Keep(_, _, _)
Keep(members, usable, i) ==
  IF i > Len(members) THEN <<>>
  ELSE (IF i \in usable THEN <<members[i]>> ELSE <<>>) \o Keep(members, usable, i + 1)

specializeCondition(idx, node, reference) ==
  [node EXCEPT !.members = Keep(node.members, Usable(idx, node, reference), 1)]

isOnlyEqualityMatch(node) == \A i \in 1..Len(node.members) : node.members[i].type = "EQ"

\* arangodb::aql::SortCondition: the attributes of the variable it sorts by
SortCondition(attrs, unidirectional) == [attrs |-> attrs, unidirectional |-> unidirectional]

isEmpty(sortCondition) == sortCondition.attrs = <<>>

isOnlyAttributeAccess(sortCondition) == TRUE

isUnidirectional(sortCondition) == ~isEmpty(sortCondition) /\ sortCondition.unidirectional

numAttributes(sortCondition) == Len(sortCondition.attrs)

RECURSIVE coveredAttributes(_, _)
coveredAttributes(sortCondition, fields) ==
  IF sortCondition.attrs = <<>> \/ fields = <<>> THEN 0
  ELSE IF Head(sortCondition.attrs) # Head(fields) THEN 0
  ELSE 1 + coveredAttributes([sortCondition EXCEPT !.attrs = Tail(@)], Tail(fields))

supportsSortCondition(idx, sortCondition, itemsInIndex) ==
  [supports |-> coveredAttributes(sortCondition, idx.fields) >= numAttributes(sortCondition),
   estimatedCost |-> 0]

RECURSIVE Log2(_)
Log2(n) == IF n <= 1 THEN 0 ELSE 1 + Log2(n \div 2)

(***************************************************************************)
(* indexSupportsSort                                                       *)
(***************************************************************************)
indexSupportsSort(idx, sortCondition, itemsInIndex) ==
  IF isSorted(idx) /\ supportsSortCondition(idx, sortCondition, itemsInIndex).supports
    THEN [supports |-> TRUE,
          estimatedCost |-> supportsSortCondition(idx, sortCondition, itemsInIndex).estimatedCost]
    ELSE [supports |-> FALSE,
          estimatedCost |-> IF itemsInIndex > 0 THEN 2 * itemsInIndex * Log2(itemsInIndex)
                            ELSE 0]

(***************************************************************************)
(* Transaction::findIndexHandleForAndNode                                  *)
(***************************************************************************)
\* one round of the loop: what the index supports and what it costs
findIndexHandleForAndNode_cost(idx, node, reference, sortCondition, itemsInCollection) ==
  With(supportsFilterCondition(idx, node, reference, itemsInCollection), LAMBDA filter :
  LET filterCost == IF filter.supports THEN filter.estimatedCost ELSE itemsInCollection * 3
      itemsInIndex == IF filter.supports THEN filter.estimatedItems ELSE itemsInCollection
      sort == IF isUnidirectional(sortCondition)
                THEN indexSupportsSort(idx, sortCondition, itemsInIndex)
                ELSE [supports |-> FALSE, estimatedCost |-> 0]
      noSortingNeeded ==
        /\ ~sort.supports
        /\ ~isEmpty(sortCondition) /\ isOnlyAttributeAccess(sortCondition)
        /\ isOnlyEqualityMatch(node)
        /\ coveredAttributes(sortCondition, idx.fields) = numAttributes(sortCondition)
        /\ (isSorted(idx) \/ Len(idx.fields) = numAttributes(sortCondition))
      sortCost == IF noSortingNeeded THEN 0 ELSE sort.estimatedCost IN
  [supportsFilter |-> filter.supports, supportsSort |-> sort.supports,
   totalCost |-> filterCost + sortCost])

NoBest == [index |-> 0, cost |-> 0, supportsFilter |-> FALSE, supportsSort |-> FALSE]

\* a later index replaces the best one at the same cost
findIndexHandleForAndNode_lastWins(best, totalCost) == best.index = 0 \/ totalCost <= best.cost

\* bestIndex == nullptr || totalCost < bestCost
findIndexHandleForAndNode_better(best, totalCost) == best.index = 0 \/ totalCost < best.cost

RECURSIVE findIndexHandleForAndNode_best(_, _, _, _, _, _, _)
findIndexHandleForAndNode_best(indexes, node, reference, sortCondition, itemsInCollection, i, best) ==
  IF i > Len(indexes) THEN best
  ELSE With(findIndexHandleForAndNode_cost(indexes[i], node, reference, sortCondition,
                                               itemsInCollection), LAMBDA c :
       LET next == IF (c.supportsFilter \/ c.supportsSort)
                      /\ findIndexHandleForAndNode_better(best, c.totalCost)
                     THEN [index |-> i, cost |-> c.totalCost,
                           supportsFilter |-> c.supportsFilter,
                           supportsSort |-> c.supportsSort]
                     ELSE best IN
       findIndexHandleForAndNode_best(indexes, node, reference, sortCondition,
                                      itemsInCollection, i + 1, next))

\* a handle is the position of its index among the indexes of the collection
findIndexHandleForAndNode(indexes, node, reference, sortCondition, itemsInCollection, usedIndexes, isSparse) ==
  With(findIndexHandleForAndNode_best(indexes, node, reference, sortCondition,
                                             itemsInCollection, 1, NoBest), LAMBDA best :
  IF best.index = 0
    THEN [first |-> FALSE, second |-> FALSE, usedIndexes |-> usedIndexes,
          specializedCondition |-> NullAnd, isSparse |-> isSparse]
    ELSE [first |-> best.supportsFilter, second |-> best.supportsSort,
          usedIndexes |-> Append(usedIndexes, best.index),
          specializedCondition |-> specializeCondition(indexes[best.index], node, reference),
          isSparse |-> indexes[best.index].sparse])

(***************************************************************************)
(* Transaction::getBestIndexHandlesForFilterCondition                      *)
(***************************************************************************)
\* the loop over the members of the root; returned tells that the loop was
\* left by the return for an index that serves the sort only
RECURSIVE getBestIndexHandles_loopKeepsOthers(_, _, _, _, _, _)
getBestIndexHandles_loopKeepsOthers(indexes, reference, sortCondition, itemsInCollection, i, acc) ==
  IF i > Len(acc.root) THEN acc
  ELSE With(findIndexHandleForAndNode(indexes, acc.root[i], reference,
                            sortCondition, itemsInCollection, acc.usedIndexes, acc.isSparse), LAMBDA canUseIndex :
       IF canUseIndex.second /\ ~canUseIndex.first
         THEN LET sortIndex == IF canUseIndex.isSparse THEN <<>>
                               ELSE canUseIndex.usedIndexes IN
              [acc EXCEPT !.returned = TRUE, !.canUseForFilter = FALSE,
                          !.canUseForSort = sortIndex # <<>>,
                          !.usedIndexes = sortIndex, !.isSparse = canUseIndex.isSparse]
         ELSE getBestIndexHandles_loopKeepsOthers(indexes, reference, sortCondition,
                itemsInCollection, i + 1,
                [acc EXCEPT !.canUseForFilter = @ /\ canUseIndex.first,
                            !.canUseForSort = @ \/ canUseIndex.second,
                            !.usedIndexes = canUseIndex.usedIndexes,
                            !.isSparse = canUseIndex.isSparse,
                            !.root[i] = canUseIndex.specializedCondition]))

RECURSIVE getBestIndexHandles_loop(_, _, _, _, _, _)
getBestIndexHandles_loop(indexes, reference, sortCondition, itemsInCollection, i, acc) ==
  IF i > Len(acc.root) THEN acc
  ELSE With(findIndexHandleForAndNode(indexes, acc.root[i], reference,
                            sortCondition, itemsInCollection, acc.usedIndexes, acc.isSparse), LAMBDA canUseIndex :
       IF canUseIndex.second /\ ~canUseIndex.first
         THEN LET sortIndex == IF canUseIndex.isSparse THEN <<>>
                               ELSE <<canUseIndex.usedIndexes[Len(canUseIndex.usedIndexes)]>> IN
              [acc EXCEPT !.returned = TRUE, !.canUseForFilter = FALSE,
                          !.canUseForSort = sortIndex # <<>>,
                          !.usedIndexes = sortIndex, !.isSparse = canUseIndex.isSparse]
         ELSE getBestIndexHandles_loop(indexes, reference, sortCondition, itemsInCollection,
                i + 1,
                [acc EXCEPT !.canUseForFilter = @ /\ canUseIndex.first,
                            !.canUseForSort = @ \/ canUseIndex.second,
                            !.usedIndexes = canUseIndex.usedIndexes,
                            !.isSparse = canUseIndex.isSparse,
                            !.root[i] = canUseIndex.specializedCondition]))

\* everything up to the call of sortOrs
getBestIndexHandles_chosen(indexes, root, reference, sortCondition, itemsInCollection) ==
  getBestIndexHandles_loop(indexes, reference, sortCondition, itemsInCollection, 1,
    [canUseForFilter |-> Len(root) > 0, canUseForSort |-> FALSE, isSparse |-> FALSE,
     usedIndexes |-> <<>>, root |-> root, returned |-> FALSE])

\* the arrangements std::sort may produce in the call of sortOrs, if any
getBestIndexHandles_orders(indexes, root, reference, sortCondition, itemsInCollection) ==
  With(getBestIndexHandles_chosen(indexes, root, reference, sortCondition,
                                  itemsInCollection), LAMBDA chosen :
  IF chosen.canUseForFilter /\ ~chosen.returned
    THEN sortOrs_orders(chosen.root, reference, chosen.usedIndexes)
    ELSE {<<>>})

getBestIndexHandlesForFilterCondition(indexes, root, reference, sortCondition, itemsInCollection, order) ==
  With(getBestIndexHandles_chosen(indexes, root, reference, sortCondition,
                                  itemsInCollection), LAMBDA chosen :
  IF chosen.canUseForFilter /\ ~chosen.returned
    THEN With(sortOrs(chosen.root, reference, chosen.usedIndexes, order), LAMBDA sorted :
         [first |-> chosen.canUseForFilter, second |-> chosen.canUseForSort,
          usedIndexes |-> sorted.usedIndexes, root |-> sorted.root,
          isSorted |-> sorted.res])
    ELSE [first |-> chosen.canUseForFilter, second |-> chosen.canUseForSort,
          usedIndexes |-> chosen.usedIndexes, root |-> chosen.root,
          isSorted |-> FALSE])

(***************************************************************************)
(* The planner called for a root, a sort condition, an item count and the  *)
(* indexes of the collection.                                              *)
(***************************************************************************)
IndexKinds ==
  {Index(type, sparse, fields, estimatedCost) :
     type \in {"hash", "skiplist"}, sparse \in BOOLEAN,
     fields \in {<<"a">>, <<"b">>}, estimatedCost \in {1, 9}}

IndexLists == UNION {[1..n -> IndexKinds] : n \in 0..MaxIndexes}

PlanClauses ==
  { Single("EQ", AttributeAccess("d", "a"), Value(1)),
    Single("GT", AttributeAccess("d", "a"), Value(1)),
    Single("EQ", AttributeAccess("d", "b"), Value(1)) }

PlanRoots == UNION {[1..n -> PlanClauses] : n \in 0..MaxClauses}

SortConditions ==
  {SortCondition(<<>>, FALSE), SortCondition(<<"a">>, TRUE), SortCondition(<<"a", "b">>, FALSE)}

ItemCounts == {0, 4}

callGetBestIndexHandles(indexes, root, sortCondition, itemsInCollection) ==
  /\ plan.op = "none"
  /\ \E order \in getBestIndexHandles_orders(indexes, root, Reference, sortCondition,
                                             itemsInCollection) :
       plan' = [op |-> "getBestIndexHandlesForFilterCondition",
                indexes |-> indexes, root |-> root, sortCondition |-> sortCondition,
                itemsInCollection |-> itemsInCollection,
                out |-> getBestIndexHandlesForFilterCondition(indexes, root, Reference,
                          sortCondition, itemsInCollection, order)]
  /\ UNCHANGED <<lifeVars, crudVars, clusterVars, codecVars, debugVars, lockVars>>

(***************************************************************************)
(* The document identity codec called on its own: extractKey and           *)
(* extractIdString of a slice, and of the object buildDocumentIdentity     *)
(* writes.                                                                 *)
(***************************************************************************)
Chars == {"c", "k", "/"}

Strings(n) == UNION {[1..m -> Chars] : m \in 0..n}

CodecIds ==
  {VPackNone, Num(7)} \cup {Str(s) : s \in Strings(MaxLen)}
    \cup {Custom(head, cid) : head \in {CustomIdTag, CustomIdTag + 1},
                              cid \in 1..Len(CollectionNames)}

CodecKeys == {VPackNone, Num(7)} \cup {Str(s) : s \in Strings(MaxLen - 2)}

CodecSlices ==
  {Doc(id, key) : id \in CodecIds, key \in CodecKeys}
    \cup (CodecIds \ {VPackNone})

CodecBases == {VPackNone, Str(<<"k">>)} \cup {Doc(VPackNone, key) : key \in CodecKeys}

\* the object a reader finds in the builder
AsSlice(item) ==
  [type |-> "object", id |-> Str(item.id), key |-> Str(item.key), rev |-> item.rev]

Decoded(op, slice, base) ==
  [op |-> op, slice |-> slice, base |-> base, key |-> extractKey(slice),
   id |-> extractIdString(slice, base)]

decode(slice, base) ==
  /\ codec.op = "none"
  /\ codec' = Decoded("decode", slice, base)
  /\ UNCHANGED <<lifeVars, crudVars, clusterVars, planVars, debugVars, lockVars>>

encode(key, rid) ==
  LET built == buildDocumentIdentity(Fresh(store, locked), key, rid, 0, FALSE, FALSE)
      written == built.payload[Len(built.payload)] IN
  /\ codec.op = "none"
  /\ codec' = Decoded("encode", AsSlice(written), Str(key))
  /\ UNCHANGED <<lifeVars, crudVars, clusterVars, planVars, debugVars, lockVars>>

\* the caller has the strings and goes on
decoded ==
  /\ codec.op # "none"
  /\ codec' = NoCodec
  /\ UNCHANGED <<lifeVars, crudVars, clusterVars, planVars, debugVars, lockVars>>

(***************************************************************************)
(* RestDebugHandler::execute: the requests under /_admin/debug and the     *)
(* fail-points they arm.                                                   *)
(***************************************************************************)
RequestTypes == {"DELETE_REQ", "PUT", "GET"}

\* the segments a request suffix is made of; every one can name a fail-point
Segments == {"failat", "p1", "p2"}

Suffixes == UNION {[1..n -> Segments] : n \in 0..MaxSuffix}

GeneralRequest(type, suffix) == [type |-> type, suffix |-> suffix]

NoRequest == GeneralRequest("NONE", <<>>)

\* generateNotImplemented and generateResult(OK, true)
generateNotImplemented(path) ==
  [code |-> "NOT_IMPLEMENTED", body |-> <<"ILLEGAL ", path>>]

generateResult(code, payload) == [code |-> code, body |-> payload]

TRI_ClearFailurePointsDebugging(points) == {}
TRI_RemoveFailurePointDebugging(points, name) == points \ {name}
TRI_AddFailurePointDebugging(points, name) == points \cup {name}

RestDebugHandler_executeRemoveClearsAll(points, type, suffix) ==
  LET len == Len(suffix)
      illegal == generateNotImplemented("/_admin/debug/failat")
      done == generateResult("OK", <<"true">>) IN
  IF len = 0 \/ len > 2 \/ ~(suffix[1] = "failat")
    THEN [points |-> points, generated |-> <<illegal>>]
  ELSE IF type = "DELETE_REQ"
    THEN [points |-> TRI_ClearFailurePointsDebugging(points), generated |-> <<done>>]
  ELSE IF type = "PUT"
    THEN IF len = 2
           THEN [points |-> TRI_AddFailurePointDebugging(points, suffix[2]),
                 generated |-> <<done>>]
           ELSE [points |-> points, generated |-> <<illegal, done>>]
  ELSE [points |-> points, generated |-> <<illegal>>]

\* the fail-points after the request, and the responses generated for it in
\* order: each one replaces the one before
RestDebugHandler_execute(points, type, suffix) ==
  LET len == Len(suffix)
      illegal == generateNotImplemented("/_admin/debug/failat")
      done == generateResult("OK", <<"true">>) IN
  IF len = 0 \/ len > 2 \/ ~(suffix[1] = "failat")
    THEN [points |-> points, generated |-> <<illegal>>]
  ELSE IF type = "DELETE_REQ"
    THEN [points |-> IF len = 1
                       THEN TRI_ClearFailurePointsDebugging(points)
                       ELSE TRI_RemoveFailurePointDebugging(points, suffix[2]),
          generated |-> <<done>>]
  ELSE IF type = "PUT"
    THEN IF len = 2
           THEN [points |-> TRI_AddFailurePointDebugging(points, suffix[2]),
                 generated |-> <<done>>]
           ELSE [points |-> points, generated |-> <<illegal, done>>]
  ELSE [points |-> points, generated |-> <<illegal>>]

NoReply == [request |-> NoRequest, generated |-> <<>>, before |-> {}]

execute(type, suffix) ==
  LET r == RestDebugHandler_execute(failurePoints, type, suffix) IN
  /\ failurePoints' = r.points
  /\ reply' = [request |-> GeneralRequest(type, suffix), generated |-> r.generated,
               before |-> failurePoints]
  /\ UNCHANGED <<lifeVars, crudVars, clusterVars, planVars, codecVars, lockVars>>

(***************************************************************************)
(* The specifications.  SpecLife: facades are constructed, used and        *)
(* destroyed.  SpecCrud: local operations on one collection inside a       *)
(* RUNNING top-level transaction of a single server.  SpecRepl: writes on  *)
(* a shard leader with followers.  SpecCoord: CRUD operations on a         *)
(* coordinator.                                                            *)
(***************************************************************************)
\* a direct call of indexScan; the caller reads the cursor to its end
Scan(cursorType, indexId, search, skip, limit, batchSize, reverse) ==
  [type |-> "scan", cursorType |-> cursorType, indexId |-> indexId,
   search |-> search, skip |-> skip, limit |-> limit, batchSize |-> batchSize,
   reverse |-> reverse]

ReadCursor(st, cursor) ==
  IF cursor.thrown THEN Thrown(st, cursor.code)
  ELSE Returned(drain(st, cursor, 1, 0, "document", CollName \o <<"/">>).st,
                cursor.code)

scan(cursorType, indexId, search, skip, limit, batchSize, reverse, anyOrder, iteratorOk) ==
  /\ Finish("indexScan",
            Scan(cursorType, indexId, search, skip, limit, batchSize, reverse),
            NoOptions,
            ReadCursor(Now, indexScan(Now, role, cursorType, indexId, search, skip,
                                      limit, batchSize, reverse, anyOrder,
                                      iteratorOk)),
            FALSE)
  /\ Silent

scanForCondition(indexId, condition, limit, batchSize, reverse, iteratorOk) ==
  /\ Finish("indexScanForCondition",
            Scan("INDEX", indexId, condition, 0, limit, batchSize, reverse),
            NoOptions,
            ReadCursor(Now, indexScanForCondition(Now, role, indexId, condition,
                                                  limit, batchSize, reverse,
                                                  iteratorOk)),
            FALSE)
  /\ Silent

CrudIdle ==
  /\ store = [k \in Keys |-> 0]
  /\ locked = FALSE
  /\ result = NoResult

LifeIdle ==
  /\ trx = NoTrx
  /\ facades = <<>>
  /\ nextId = 1
  /\ registered = FALSE
  /\ stored = {}
  /\ freeCount = [i \in TrxIds |-> 0]
  /\ freedStatus = [i \in TrxIds |-> "none"]
  /\ call = [op |-> "none", f |-> 0, cid |-> 0, res |-> "NO_ERROR", events |-> <<>>]

ClusterIdle(r, fol) ==
  /\ role = r
  /\ followers = fol
  /\ net = NoNet

\* no planner call, no codec call, no fail-point, no debug request yet
OthersIdle ==
  /\ plan = NoPlan
  /\ codec = NoCodec
  /\ failurePoints = {}
  /\ reply = NoReply
  /\ wlock = NoLock

\* a single server on which no transaction was made
ServerIdle ==
  /\ isReal = TRUE
  /\ embeddable = TRUE
  /\ LifeIdle
  /\ CrudIdle
  /\ ClusterIdle("ROLE_SINGLE", <<>>)

\* Transaction::Transaction: _isReal is false on a coordinator
InitLife ==
  /\ isReal \in BOOLEAN
  /\ embeddable \in BOOLEAN
  /\ LifeIdle
  /\ CrudIdle
  /\ ClusterIdle(IF isReal THEN "ROLE_SINGLE" ELSE "ROLE_COORDINATOR", <<>>)
  /\ OthersIdle

NextLife ==
  /\ \/ Construct
     \/ Destroy
     \/ \E f \in 1..Len(facades) : begin(f)
     \/ \E f \in 1..Len(facades) : commit(f)
     \/ \E f \in 1..Len(facades) : abort(f)
     \/ \E f \in 1..Len(facades), cid \in Cids, type \in AccessTypes :
          addCollection(f, cid, type)
  /\ UNCHANGED <<crudVars, clusterVars, planVars, codecVars, debugVars, lockVars>>

SpecLife == InitLife /\ [][NextLife]_vars

\* a top-level transaction on the collection, begun
LifeRunningOn(real) ==
  /\ isReal = real
  /\ embeddable = TRUE
  /\ trx = [TRI_CreateTransaction(1) EXCEPT !.status = "RUNNING",
                                            !.collections[1] = "write"]
  /\ facades = <<setupToplevel(1, TRUE).fac>>
  /\ nextId = 2
  /\ registered = TRUE
  /\ stored = {}
  /\ freeCount = [i \in TrxIds |-> 0]
  /\ freedStatus = [i \in TrxIds |-> "none"]
  /\ call = [op |-> "begin", f |-> 1, cid |-> 0, res |-> "NO_ERROR", events |-> <<>>]

LifeRunning == LifeRunningOn(TRUE)

InitCrud == LifeRunning /\ CrudIdle /\ ClusterIdle("ROLE_SINGLE", <<>>) /\ OthersIdle

AnyOrders == {KeyOrder, <<KeyOrder[2], KeyOrder[1]>>}
KeyForms == {"key", "id", "path"}

NextCrud ==
  \/ /\ result.op = "none"
     /\ \E value \in Values, options \in OptionSets : document(value, options, NoEnv)
  \/ /\ result.op = "none"
     /\ \E value \in Values, options \in OptionSets : insert(value, options, NoEnv)
  \/ /\ result.op = "none"
     /\ \E value \in Values, options \in OptionSets, lockRes \in LockResults :
          update(value, options, lockRes, NoEnv)
  \/ /\ result.op = "none"
     /\ \E value \in Values, options \in OptionSets, lockRes \in LockResults :
          replace(value, options, lockRes, NoEnv)
  \/ /\ result.op = "none"
     /\ \E value \in Values, options \in OptionSets : remove(value, options, NoEnv)
  \/ /\ result.op = "none"
     /\ \E skip \in 0..MaxLimit, limit \in 0..MaxLimit, anyOrder \in AnyOrders,
           lockRes \in LockResults, failAt \in 0..1 :
          any(skip, limit, anyOrder, lockRes, failAt)
  \/ /\ result.op = "none"
     /\ \E skip \in 0..MaxLimit, limit \in 0..MaxLimit, lockRes \in LockResults,
           failAt \in 0..1 :
          all(skip, limit, lockRes, failAt)
  \/ /\ result.op = "none"
     /\ \E type \in KeyForms, lockRes \in LockResults, failAt \in 0..1 :
          allKeys(type, lockRes, failAt)
  \/ /\ result.op = "none"
     /\ \E lockRes \in LockResults : count(lockRes)
  \/ /\ result.op = "none"
     /\ \E options \in OptionSets, lockRes \in LockResults,
           failAt \in 0..Len(KeyOrder) :
          truncate(options, lockRes, failAt)

  \/ Return

SpecCrud == InitCrud /\ [][NextCrud]_vars

\* a shard leader: the values are single documents and arrays of at most one
ClusterValues == {v \in Values : v.type = "array" => Len(v.items) <= 1}
ReplOptions == {o \in OptionSets : ~o.ignoreRevs /\ ~o.silent}
ReplEnvs == {[NoEnv EXCEPT !.replies = r] : r \in [Servers -> Replies]}

InitRepl ==
  /\ LifeRunning
  /\ CrudIdle
  /\ \E fol \in FollowerLists : ClusterIdle("ROLE_PRIMARY", fol)
  /\ OthersIdle

NextRepl ==
  \/ /\ result.op = "none"
     /\ \E value \in ClusterValues, options \in ReplOptions, env \in ReplEnvs :
          insert(value, options, env)
  \/ /\ result.op = "none"
     /\ \E value \in ClusterValues, options \in ReplOptions, lockRes \in LockResults :
          update(value, options, lockRes, NoEnv)
  \/ /\ result.op = "none"
     /\ \E value \in ClusterValues, options \in ReplOptions, lockRes \in LockResults :
          replace(value, options, lockRes, NoEnv)
  \/ /\ result.op = "none"
     /\ \E value \in ClusterValues, options \in ReplOptions :
          remove(value, options, NoEnv)
  \/ Return

SpecRepl == InitRepl /\ [][NextRepl]_vars

\* a coordinator: every operation is one request to the responsible shard
CoordEnvs == {[NoEnv EXCEPT !.response = a] : a \in Responses}

InitCoord ==
  /\ LifeRunningOn(FALSE)
  /\ CrudIdle
  /\ ClusterIdle("ROLE_COORDINATOR", <<>>)
  /\ OthersIdle

NextCoord ==
  \/ /\ result.op = "none"
     /\ \E value \in ClusterValues, options \in OptionSets, env \in CoordEnvs :
          document(value, options, env)
  \/ /\ result.op = "none"
     /\ \E value \in ClusterValues, options \in OptionSets, env \in CoordEnvs :
          insert(value, options, env)
  \/ /\ result.op = "none"
     /\ \E value \in ClusterValues, options \in OptionSets, env \in CoordEnvs :
          update(value, options, "NO_ERROR", env)
  \/ /\ result.op = "none"
     /\ \E value \in ClusterValues, options \in OptionSets, env \in CoordEnvs :
          replace(value, options, "NO_ERROR", env)
  \/ /\ result.op = "none"
     /\ \E value \in ClusterValues, options \in OptionSets, env \in CoordEnvs :
          remove(value, options, env)
  \/ Return

SpecCoord == InitCoord /\ [][NextCoord]_vars

\* SpecScan: direct index scans over a collection, on a server of any role
BatchSizes == {1, BatchSize}

InitScan ==
  /\ role \in Roles
  /\ LifeRunningOn(~isCoordinator(role))
  /\ store \in [Keys -> 0..MaxRev]
  /\ locked = FALSE
  /\ result = NoResult
  /\ followers = <<>>
  /\ net = NoNet
  /\ OthersIdle

NextScan ==
  \/ /\ result.op = "none"
     /\ \E cursorType \in CursorTypes, indexId \in IndexHandles,
           search \in Searches, skip \in 0..MaxLimit, limit \in 0..MaxLimit,
           batchSize \in BatchSizes, reverse \in BOOLEAN, anyOrder \in AnyOrders,
           iteratorOk \in BOOLEAN :
          scan(cursorType, indexId, search, skip, limit, batchSize, reverse,
               anyOrder, iteratorOk)
  \/ /\ result.op = "none"
     /\ \E indexId \in IndexHandles, condition \in Searches,
           limit \in 0..MaxLimit, batchSize \in BatchSizes, reverse \in BOOLEAN,
           iteratorOk \in BOOLEAN :
          scanForCondition(indexId, condition, limit, batchSize, reverse,
                           iteratorOk)
  \/ Return

SpecScan == InitScan /\ [][NextScan]_vars

\* SpecPlan: the planner called for a condition and a set of indexes
InitPlan ==
  /\ ServerIdle
  /\ OthersIdle

NextPlan ==
  \/ /\ plan.op = "none"
     /\ \E indexes \in IndexLists, root \in PlanRoots, sortCondition \in SortConditions, itemsInCollection \in ItemCounts :
          callGetBestIndexHandles(indexes, root, sortCondition, itemsInCollection)
  \/ planned

SpecPlan == InitPlan /\ [][NextPlan]_vars

\* SpecSort: sortOrs applied to a root, and applied again to its outcome
InitSort ==
  /\ ServerIdle
  /\ OthersIdle

NextSort ==
  \/ /\ plan.op = "none"
     /\ \E root \in Roots, extra \in 0..1 : callSortOrs(root, Handles(Len(root) + extra))
  \/ callSortOrsAgain
  \/ planned

SpecSort == InitSort /\ [][NextSort]_vars

\* SpecLock: two facades writing the same collection
InitLock ==
  /\ ServerIdle
  /\ OthersIdle

NextLock ==
  \/ \E f \in Writers, op \in WriteOps, n \in 0..MaxBatch : startWrite(f, op, n)
  \/ \E f \in Writers, granted \in BOOLEAN : lockForWrite(f, granted)
  \/ \E f \in Writers : beginDocument(f)
  \/ \E f \in Writers : endDocument(f)
  \/ \E f \in Writers : lockCollection(f)
  \/ \E f \in Writers : unlockCollection(f)

SpecLock == InitLock /\ [][NextLock]_vars

\* SpecCodec: calls of the document identity codec
InitCodec ==
  /\ ServerIdle
  /\ OthersIdle

NextCodec ==
  \/ /\ codec.op = "none"
     /\ \E slice \in CodecSlices, base \in CodecBases : decode(slice, base)
  \/ /\ codec.op = "none"
     /\ \E key \in Strings(MaxLen - 1), rid \in Revs : encode(key, rid)
  \/ decoded

SpecCodec == InitCodec /\ [][NextCodec]_vars

\* SpecDebug: requests to the debug handler, one after the other
InitDebug ==
  /\ ServerIdle
  /\ OthersIdle

NextDebug ==
  \E type \in RequestTypes, suffix \in Suffixes : execute(type, suffix)

SpecDebug == InitDebug /\ [][NextDebug]_vars

(***************************************************************************)
(* Claims about the transaction lifecycle, checked under SpecLife.         *)
(***************************************************************************)
Past == {"RUNNING", "COMMITTED", "ABORTED"}

NumAdopted(n) == Cardinality({i \in 1..n : facades[i].adopted})

\* C1: calling begin on a transaction whose status is already past CREATED
\* (RUNNING, COMMITTED or ABORTED) leaves the status as it was, for real and
\* for non-real (coordinator) transactions alike.
C1_BeginPastCreatedIsNoOp ==
  [][(call'.op = "begin" /\ facades[call'.f].hasTrx /\ trx.status \in Past)
       => trx'.status = trx.status]_vars

\* C2: commit and abort called on a transaction that is not RUNNING (CREATED,
\* COMMITTED, ABORTED, or without a handle) return TRANSACTION_INTERNAL and
\* leave the handle unchanged; from RUNNING, commit of a top-level transaction
\* ends in COMMITTED and abort in ABORTED.
C2_CommitAbortOnlyFromRunning ==
  [][call'.op \in {"commit", "abort"} =>
       LET fac == facades[call'.f]
           st == getStatus(fac, trx) IN
       /\ st # "RUNNING" => (call'.res = "TRANSACTION_INTERNAL" /\ trx' = trx)
       /\ (st = "RUNNING" /\ fac.nestingLevel = 0) =>
            /\ call'.res = "NO_ERROR"
            /\ trx'.status =
                 IF call'.op = "commit" THEN "COMMITTED" ELSE "ABORTED"]_vars

C2_Witness ==
  /\ call.op = "abort"
  /\ call.res = "TRANSACTION_INTERNAL"
  /\ trx # NoTrx
  /\ trx.status = "COMMITTED"

C4_NestingLevelCountsEmbedded ==
  trx # NoTrx =>
    /\ trx.nestingLevel = NumAdopted(Len(facades))
    /\ \A i \in 1..Len(facades) :
         facades[i].adopted => facades[i].nestingLevel = NumAdopted(i)

C4_Witness ==
  /\ call.op = "destroy"
  /\ call.events = <<"unnest">>
  /\ ~embeddable
  /\ trx # NoTrx
  /\ trx.nestingLevel = 1
  /\ Len(facades) >= 2
  /\ facades[Len(facades)].setupState = "TRANSACTION_NESTED"

\* C5: destroying a top-level facade whose status is RUNNING aborts the
\* transaction first, then frees the handle exactly once, stores (id, whether
\* an operation failed) in the context and unregisters the transaction;
\* destroying an embedded facade neither aborts, commits nor frees the handle.
C5_DestructorAbortsThenFrees ==
  [][(call'.op = "destroy" /\ facades # <<>> /\ facades[Len(facades)].hasTrx) =>
       LET fac == facades[Len(facades)] IN
       /\ (~fac.adopted /\ trx.status = "RUNNING") =>
            /\ call'.events = <<"abort", "free", "store", "unregister">>
            /\ freedStatus'[trx.id] = "ABORTED"
            /\ trx' = NoTrx
            /\ freeCount[trx.id] = 0
            /\ freeCount'[trx.id] = 1
            /\ \E b \in BOOLEAN : stored' = stored \cup {<<trx.id, b>>}
            /\ ~registered'
       /\ fac.adopted =>
            /\ trx' # NoTrx
            /\ trx'.status = trx.status
            /\ freeCount' = freeCount
            /\ stored' = stored
            /\ registered' = registered]_vars

C5_Witness ==
  /\ call.op = "destroy"
  /\ call.events = <<"abort", "free", "store", "unregister">>
  /\ trx = NoTrx
  /\ \E i \in TrxIds : freedStatus[i] = "ABORTED" /\ freeCount[i] = 1

(***************************************************************************)
(* Claims about the local CRUD pipeline, checked under SpecCrud.  They are *)
(* stated on the result of the last operation and the collection after it. *)
(***************************************************************************)
IsBatch == result.value.type = "array"

Items == IF IsBatch THEN result.value.items ELSE <<result.value>>

Failures == {i \in 1..Len(result.outcomes) : result.outcomes[i].res # "NO_ERROR"}

FailuresOf(kind) ==
  {i \in 1..Len(result.outcomes) : result.outcomes[i].res = kind}

ErrorKinds == {result.outcomes[i].res : i \in Failures}

RECURSIVE SumCounts(_, _)
SumCounts(f, S) ==
  IF S = {} THEN 0
  ELSE LET k == CHOOSE x \in S : TRUE IN f[k] + SumCounts(f, S \ {k})

LockAcquired(i) == i \in 1..Len(result.events) /\ result.events[i] = Ev("lock", <<>>, TRUE)

\* C6: every local operation that acquired the collection lock through lock()
\* (any, all, allKeys, count, truncate, update, replace) has invoked unlock()
\* after it by the time it returns, on every return path.
C6_LockReleasedBeforeReturn ==
  (result.op \in {"any", "all", "allKeys", "count", "truncate", "update", "replace"}
     /\ ~result.thrown) =>
    \A i \in 1..Len(result.events) :
      LockAcquired(i) =>
        \E j \in (i + 1)..Len(result.events) : result.events[j].e = "unlock"

\* C7 as stated: in an array call of document, insert, update, replace or
\* remove every element is processed and each failure is counted in the
\* count-by-error-kind map; in a single-document call the failure's kind is
\* the result code.
C7_EveryElementProcessedAsStated ==
  (result.op \in {"document", "insert", "update", "replace", "remove"}
     /\ ~result.thrown /\ result.outcomes # <<>>) =>
    IF IsBatch
      THEN /\ Len(result.outcomes) = Len(Items)
           /\ \A kind \in ErrorKinds :
                kind \in DOMAIN result.counts
                  /\ result.counts[kind] = Cardinality(FailuresOf(kind))
      ELSE result.code = result.outcomes[1].res

\* C7 as amended: in an array call of insert every element is processed and
\* each failure is counted in the count-by-error-kind map; an array call of
\* document, update, replace or remove processes no element after the first
\* failing one and counts nothing in the map; in a single-document call the
\* failure's kind is the result code.
C7_BatchErrorAccounting ==
  (result.op \in {"document", "insert", "update", "replace", "remove"}
     /\ ~result.thrown /\ result.outcomes # <<>>) =>
    IF ~IsBatch
      THEN result.code = result.outcomes[1].res
    ELSE IF result.op = "insert"
      THEN /\ Len(result.outcomes) = Len(Items)
           /\ \A kind \in ErrorKinds :
                kind \in DOMAIN result.counts
                  /\ result.counts[kind] = Cardinality(FailuresOf(kind))
    ELSE /\ Failures \subseteq {Len(result.outcomes)}
         /\ Failures = {} => Len(result.outcomes) = Len(Items)
         /\ result.counts = NoCounts

C7_Witness ==
  /\ result.op = "insert"
  /\ IsBatch
  /\ Len(Items) = 2
  /\ Len(result.outcomes) = 2
  /\ result.outcomes[1].res = "ARANGO_UNIQUE_CONSTRAINT_VIOLATED"
  /\ result.outcomes[2].res = "NO_ERROR"
  /\ result.counts = ("ARANGO_UNIQUE_CONSTRAINT_VIOLATED" :> 1)

\* C8: in a batch update, replace or remove the first failing element stops
\* the batch: no element after it is applied to the collection and the
\* result code is that element's error kind; only a batch insert continues
\* past a failing element, and its result code is NO_ERROR whatever the
\* per-document outcomes.
C8_FirstFailureStopsBatch ==
  (IsBatch /\ result.outcomes # <<>>) =>
    LET n == Len(result.outcomes) IN
    /\ result.op \in {"update", "replace", "remove"} =>
         /\ \A i \in 1..(n - 1) : result.outcomes[i].res = "NO_ERROR"
         /\ result.code = result.outcomes[n].res
         /\ n < Len(Items) => result.outcomes[n].res # "NO_ERROR"
         /\ \A k \in Keys :
              store[k] # result.pre[k] =>
                \E i \in 1..n : /\ result.outcomes[i].res = "NO_ERROR"
                                /\ result.outcomes[i].key = k
    /\ result.op = "insert" => (n = Len(Items) /\ result.code = "NO_ERROR")
    /\ (result.op # "insert" /\ Failures # {}) => Failures = {n}

C8_Witness ==
  /\ result.op = "remove"
  /\ IsBatch
  /\ Len(Items) = 2
  /\ Len(result.outcomes) = 1
  /\ result.code = "ARANGO_DOCUMENT_NOT_FOUND"
  /\ Items[2] = Str(<<"a">>)
  /\ result.pre[<<"a">>] # 0
  /\ store = result.pre

\* C9: for a batch insert of n elements the counts in the per-error-kind map
\* sum to n minus the number of elements inserted, and the map has an entry
\* for exactly the error kinds that occurred.
C9_InsertCountsSum ==
  (result.op = "insert" /\ IsBatch /\ ~result.thrown) =>
    /\ SumCounts(result.counts, DOMAIN result.counts)
         = Len(Items) - Cardinality({k \in Keys : result.pre[k] = 0 /\ store[k] # 0})
    /\ DOMAIN result.counts = ErrorKinds
    /\ \A kind \in DOMAIN result.counts : result.counts[kind] >= 1

C9_Witness ==
  /\ result.op = "insert"
  /\ IsBatch
  /\ Len(Items) = 2
  /\ result.counts = ("ARANGO_DOCUMENT_TYPE_INVALID" :> 2)

\* C10: a local read, update, replace or remove with ignoreRevs = false of a
\* stored document, whose request carries a _rev different from the stored
\* revision, ends with ARANGO_CONFLICT, leaves the stored document unchanged
\* and, when silent is false, adds to the payload the document's identity
\* (_id, _key) with the stored _rev.
C10_RevisionConflict ==
  (result.op \in {"document", "update", "replace", "remove"}) =>
    \A i \in 1..Len(result.outcomes) :
      LET e == Items[i]
          o == result.outcomes[i] IN
      (/\ e.type = "object"
       /\ e.key.type = "string"
       /\ e.rev # 0
       /\ ~result.options.ignoreRevs
       /\ o.before # 0
       /\ o.before # e.rev) =>
        /\ o.res = "ARANGO_CONFLICT"
        /\ result.code = "ARANGO_CONFLICT"
        /\ o.after = o.before
        /\ store[e.key.str] = o.before
        /\ ~result.options.silent =>
             /\ o.np >= 1
             /\ result.payload[o.np].kind = "identity"
             /\ result.payload[o.np].id = CollName \o <<"/">> \o e.key.str
             /\ result.payload[o.np].key = e.key.str
             /\ result.payload[o.np].rev = o.before

C10_Witness ==
  /\ result.op = "update"
  /\ ~IsBatch
  /\ result.value = Obj(Str(<<"a">>), 2)
  /\ ~result.options.ignoreRevs
  /\ ~result.options.silent
  /\ result.pre[<<"a">>] = 1
  /\ store[<<"a">>] = 1
  /\ result.code = "ARANGO_CONFLICT"
  /\ Len(result.payload) = 1
  /\ result.payload[1].rev = 1

(***************************************************************************)
(* Claims about the replication of a shard leader's writes to the          *)
(* followers, checked under SpecRepl.                                      *)
(***************************************************************************)
Answered(request) ==
  /\ request.done
  /\ request.result.status = "CL_COMM_RECEIVED"
  /\ request.result.answer_code \in {"CREATED", "ACCEPTED"}

InSeq(x, seq) == \E i \in 1..Len(seq) : seq[i] = x

LeaderInsert == isDBServer(role) /\ result.op = "insert" /\ ~result.thrown

C12_FollowersNeverChangeTheResult ==
  LeaderInsert =>
    LET w == insertLocal_write(Fresh(result.pre, FALSE), result.value,
                               result.options) IN
    /\ result.code = w.res
    /\ result.payload = w.st.payload
    /\ result.counts = w.st.counts
    /\ result.waitForSync = result.options.waitForSync
    /\ result.errorMessage = ""

C12_Witness ==
  /\ LeaderInsert
  /\ ~IsBatch
  /\ net.before = <<"F2", "F1">>
  /\ net.dropped = <<"F2", "F1">>
  /\ ~net.requests[1].done
  /\ followers = <<>>
  /\ result.code = "NO_ERROR"
  /\ Len(result.payload) = 1
  /\ result.waitForSync

\* C13: on a shard leader requests are sent to the followers only after the
\* local write succeeded: a single-document insert that fails locally sends no
\* request to any follower and removes no follower.
C13_NoReplicationAfterFailedInsert ==
  (LeaderInsert /\ ~IsBatch /\ result.code # "NO_ERROR") =>
    /\ net.requests = <<>>
    /\ net.dropped = <<>>
    /\ followers = net.before

\* C14: on a shard leader every successful local write (insert, update,
\* replace, remove) is replayed to every member of the current follower list
\* with the document value that was passed to the local operation.
C14_EveryWriteIsReplayed ==
  (/\ isDBServer(role)
   /\ result.op \in {"insert", "update", "replace", "remove"}
   /\ ~result.thrown
   /\ result.code = "NO_ERROR") =>
    /\ Len(net.requests) = Len(net.before)
    /\ \A i \in 1..Len(net.before) :
         /\ net.requests[i].destination = <<"server:", net.before[i]>>
         /\ net.requests[i].body = toJson(result.value)

(***************************************************************************)
(* Claims about the coordinator CRUD pipeline, checked under SpecCoord.    *)
(***************************************************************************)
CrudOps == {"document", "insert", "update", "replace", "remove"}

\* the operation sent its request and the dispatch itself succeeded
Dispatch ==
  /\ isCoordinator(role)
  /\ result.op \in CrudOps
  /\ net.requests # <<>>
  /\ net.response.res = "NO_ERROR"

Code == net.response.responseCode
Body == net.response.body

\* the response codes for which the operation parses the body as its result
ParsedCodes(op) ==
  IF op = "document" THEN {"OK", "PRECONDITION_FAILED"}
  ELSE IF op = "insert" THEN {}
  ELSE IF op = "remove" THEN {"OK", "ACCEPTED", "PRECONDITION_FAILED"}
  ELSE {"ACCEPTED", "CREATED", "CONFLICT", "PRECONDITION_FAILED"}

\* the response codes the operation takes as a success
SuccessCodes(op) ==
  IF op = "document" THEN {"OK"}
  ELSE IF op = "remove" THEN {"OK", "ACCEPTED"}
  ELSE {"CREATED", "ACCEPTED"}

BodyUsable == Code \in ParsedCodes(result.op) => Body.parses

\* C15 as stated: for every coordinator CRUD operation whose dispatch
\* succeeded, 200 OK, 201 Created and 202 Accepted each map to NO_ERROR, and
\* 201 Created yields waitForSync = true.
C15_SuccessCodesAsStated ==
  (Dispatch /\ Code \in {"OK", "CREATED", "ACCEPTED"}) =>
    /\ result.code = "NO_ERROR"
    /\ Code = "CREATED" => result.waitForSync

\* C15 as amended: each operation maps the success codes it accepts to
\* NO_ERROR when the body it parses is well-formed: document 200; insert,
\* update, replace 201 and 202, with waitForSync = true exactly for 201;
\* remove 200 and 202, with waitForSync = true exactly for 200.  A success
\* code the operation does not accept, and an accepted one with a body that
\* does not parse, map to INTERNAL.
C15_SuccessCodesPerOperation ==
  (Dispatch /\ Code \in {"OK", "CREATED", "ACCEPTED"}) =>
    IF Code \in SuccessCodes(result.op) /\ BodyUsable
      THEN /\ result.code = "NO_ERROR"
           /\ ~result.thrown
           /\ result.waitForSync =
                (IF result.op = "document" THEN FALSE
                 ELSE IF result.op = "remove" THEN Code = "OK"
                 ELSE Code = "CREATED")
      ELSE /\ result.code = "INTERNAL"
           /\ ~result.waitForSync

C15_Witness ==
  /\ Dispatch
  /\ result.op = "update"
  /\ Code = "CREATED"
  /\ Body.parses
  /\ result.code = "NO_ERROR"
  /\ result.waitForSync
  /\ Len(result.payload) = 1

\* C16 as stated: for every coordinator CRUD operation whose dispatch
\* succeeded, 404 maps to ARANGO_DOCUMENT_NOT_FOUND (ARANGO_COLLECTION_NOT_FOUND
\* for insert), 409 to ARANGO_UNIQUE_CONSTRAINT_VIOLATED, 412 to
\* ARANGO_CONFLICT, and a code outside the mapping table to INTERNAL.
C16_ErrorCodesAsStated ==
  Dispatch =>
    /\ Code = "NOT_FOUND" =>
         result.code = (IF result.op = "insert" THEN "ARANGO_COLLECTION_NOT_FOUND"
                                                ELSE "ARANGO_DOCUMENT_NOT_FOUND")
    /\ Code = "CONFLICT" => result.code = "ARANGO_UNIQUE_CONSTRAINT_VIOLATED"
    /\ Code = "PRECONDITION_FAILED" => result.code = "ARANGO_CONFLICT"
    /\ Code = "SERVER_ERROR" => result.code = "INTERNAL"

\* C16 as amended: 404 maps to ARANGO_DOCUMENT_NOT_FOUND
\* (ARANGO_COLLECTION_NOT_FOUND for insert); 409 maps to
\* ARANGO_UNIQUE_CONSTRAINT_VIOLATED for insert, update and replace, and to
\* INTERNAL for document and remove; 412 maps to ARANGO_CONFLICT; a code
\* outside the mapping table maps to INTERNAL; where the operation parses the
\* body (all but insert, for 409 and 412) a body that does not parse gives
\* INTERNAL instead.
C16_ErrorCodesPerOperation ==
  Dispatch =>
    /\ Code = "NOT_FOUND" =>
         result.code = (IF result.op = "insert" THEN "ARANGO_COLLECTION_NOT_FOUND"
                                                ELSE "ARANGO_DOCUMENT_NOT_FOUND")
    /\ Code = "CONFLICT" =>
         result.code = (IF result.op \in {"document", "remove"} THEN "INTERNAL"
                        ELSE IF BodyUsable THEN "ARANGO_UNIQUE_CONSTRAINT_VIOLATED"
                        ELSE "INTERNAL")
    /\ Code = "PRECONDITION_FAILED" =>
         result.code = (IF BodyUsable THEN "ARANGO_CONFLICT" ELSE "INTERNAL")
    /\ Code = "SERVER_ERROR" => result.code = "INTERNAL"

C16_Witness ==
  /\ Dispatch
  /\ result.op = "replace"
  /\ Code = "CONFLICT"
  /\ Body.parses
  /\ result.code = "ARANGO_UNIQUE_CONSTRAINT_VIOLATED"
  /\ ~result.waitForSync

\* C17 as stated: for every coordinator CRUD operation a 400 answer maps to
\* the errorNum and errorMessage found in the response body, and a body that
\* cannot be parsed is reported as INTERNAL.
C17_BadRequestAsStated ==
  (Dispatch /\ Code = "BAD") =>
    IF Body.parses /\ Body.errorNum # "NONE"
      THEN /\ result.code = Body.errorNum
           /\ result.errorMessage = Body.errorMessage
      ELSE result.code = "INTERNAL"

\* C17 as amended: for insert, update, replace and remove a 400 answer maps
\* to the errorNum and errorMessage found in the response body (INTERNAL and a
\* fixed message when the body has none), and a body that cannot be parsed
\* is reported as INTERNAL; for document a 400 answer maps to INTERNAL
\* whatever the body holds.  Wherever an operation parses the body, a body
\* that cannot be parsed is reported as INTERNAL.
C17_BadRequestPerOperation ==
  Dispatch =>
    /\ (Code = "BAD" /\ result.op # "document") =>
         IF Body.parses /\ Body.errorNum # "NONE"
           THEN /\ result.code = Body.errorNum
                /\ result.errorMessage = Body.errorMessage
           ELSE /\ result.code = "INTERNAL"
                /\ result.errorMessage = "JSON sent to DBserver was bad"
    /\ (Code = "BAD" /\ result.op = "document") =>
         (result.code = "INTERNAL" /\ result.errorMessage = "")
    /\ (Code \in ParsedCodes(result.op) /\ ~Body.parses) =>
         (result.code = "INTERNAL" /\ result.payload = <<>>)

C17_Witness ==
  /\ Dispatch
  /\ result.op = "remove"
  /\ Code = "BAD"
  /\ Body.parses
  /\ result.code = "ARANGO_DOCUMENT_KEY_BAD"
  /\ result.errorMessage = "illegal document key"

\* C18 as stated: every coordinator CRUD operation given an array value
\* fails with NOT_IMPLEMENTED and sends no request to any shard.
C18_ArraysAsStated ==
  (isCoordinator(role) /\ result.op \in CrudOps /\ IsBatch) =>
    /\ result.code = "NOT_IMPLEMENTED"
    /\ net.requests = <<>>

\* C18 as amended: on a coordinator document, update and remove given an
\* array fail with NOT_IMPLEMENTED and replace fails with
\* ARANGO_DOCUMENT_TYPE_INVALID, none of them sending a request to a shard;
\* insert sends the array to the shard like a single document.
C18_ArraysPerOperation ==
  (isCoordinator(role) /\ result.op \in CrudOps /\ IsBatch) =>
    IF result.op = "insert"
      THEN /\ ~result.thrown
           /\ Len(net.requests) = 1
           /\ net.requests[1].requestType = "POST"
           /\ net.requests[1].body = toJson(result.value)
      ELSE /\ result.thrown
           /\ result.code = (IF result.op = "replace"
                               THEN "ARANGO_DOCUMENT_TYPE_INVALID"
                               ELSE "NOT_IMPLEMENTED")
           /\ net.requests = <<>>

C18_Witness ==
  /\ isCoordinator(role)
  /\ result.op = "replace"
  /\ IsBatch
  /\ Len(Items) = 1
  /\ result.thrown
  /\ result.code = "ARANGO_DOCUMENT_TYPE_INVALID"
  /\ net.requests = <<>>

(***************************************************************************)
(* Claims about truncate, checked under SpecCrud.                          *)
(***************************************************************************)
EventAt(i, e) == i \in 1..Len(result.events) /\ result.events[i].e = e

\* the documents of the collection before the operation, in index order
Before == Present(result.pre, KeyOrder, 1)

\* the removal that fails, 0 when none does (the value of a truncate result)
FailingRemoval ==
  IF result.value.num \in 1..Len(Before) THEN result.value.num ELSE 0

\* C19: truncate removes every document of the collection with ignoreRevs =
\* true while the write lock is held: after a successful truncate the
\* collection is empty and the lock has been released; if a removal fails, the
\* lock is released and that removal's error code is the result.
C19_TruncateUnderWriteLock ==
  (result.op = "truncate" /\ \E i \in 1..Len(result.events) : LockAcquired(i)) =>
    LET n == Len(result.events) IN
    /\ EventAt(n, "unlock")
    /\ ~locked
    /\ \A j \in 1..n :
         EventAt(j, "remove") =>
           /\ ~result.events[j].flag
           /\ \E i \in 1..(j - 1) : LockAcquired(i)
           /\ \A i \in 1..j : ~EventAt(i, "unlock")
           /\ result.events[j + 1] = Ev("ignoreRevs", result.events[j].key, TRUE)
    /\ IF FailingRemoval = 0
         THEN /\ result.code = "NO_ERROR"
              /\ \A k \in Keys : store[k] = 0
              /\ \A i \in 1..Len(Before) :
                   \E j \in 1..n : result.events[j] = Ev("remove", Before[i], FALSE)
         ELSE /\ result.code = "OUT_OF_MEMORY"
              /\ \A i \in 1..Len(Before) :
                   store[Before[i]] = (IF i < FailingRemoval THEN 0
                                       ELSE result.pre[Before[i]])

C19_Witness ==
  /\ result.op = "truncate"
  /\ ~result.options.ignoreRevs
  /\ Len(Before) = 2
  /\ FailingRemoval = 2
  /\ result.code = "OUT_OF_MEMORY"
  /\ store[Before[1]] = 0
  /\ store[Before[2]] # 0
  /\ EventAt(Len(result.events), "unlock")
  /\ ~locked

(***************************************************************************)
(* Claims about direct index scans, checked under SpecScan.                *)
(***************************************************************************)
IsScan == result.op \in {"indexScan", "indexScanForCondition"}

\* C20: on a non-coordinator, indexScan and indexScanForCondition called with
\* limit = 0 return a successful cursor (NO_ERROR) that yields no document; on
\* a coordinator both refuse with CLUSTER_ONLY_ON_DBSERVER, whatever the other
\* arguments are.
C20_ScanEntryChecks ==
  IsScan =>
    /\ isCoordinator(role) =>
         /\ result.thrown
         /\ result.code = "CLUSTER_ONLY_ON_DBSERVER"
         /\ result.payload = <<>>
    /\ (~isCoordinator(role) /\ result.value.limit = 0) =>
         /\ ~result.thrown
         /\ result.code = "NO_ERROR"
         /\ result.payload = <<>>

\* limit = 0 with an empty index handle on a DBServer that holds documents
C20_Witness ==
  /\ result.op = "indexScan"
  /\ isDBServer(role)
  /\ result.value.limit = 0
  /\ result.value.cursorType = "INDEX"
  /\ result.value.indexId = "none"
  /\ \A k \in Keys : store[k] # 0
  /\ ~result.thrown
  /\ result.code = "NO_ERROR"
  /\ result.payload = <<>>

EmptyHandleScan ==
  /\ result.op = "indexScan"
  /\ ~isCoordinator(role)
  /\ result.value.cursorType = "INDEX"
  /\ result.value.indexId = "none"

\* C21 as stated: on a non-coordinator, indexScan with cursor kind INDEX and
\* an empty index handle fails with BAD_PARAMETER, for every value of skip,
\* limit and batchSize.
C21_EmptyHandleAsStated ==
  EmptyHandleScan => (result.thrown /\ result.code = "BAD_PARAMETER")

\* C21 as amended: on a non-coordinator, indexScan with cursor kind INDEX and
\* an empty index handle fails with BAD_PARAMETER for every skip and
\* batchSize and every limit other than 0, whether or not an iterator could
\* be made; with limit = 0 it returns a successful cursor that yields
\* nothing.
C21_EmptyHandleUnlessLimitZero ==
  EmptyHandleScan =>
    IF result.value.limit = 0
      THEN ~result.thrown /\ result.code = "NO_ERROR" /\ result.payload = <<>>
      ELSE result.thrown /\ result.code = "BAD_PARAMETER" /\ result.payload = <<>>

C21_Witness ==
  /\ EmptyHandleScan
  /\ result.value.limit = MaxLimit
  /\ result.value.skip = 1
  /\ result.value.batchSize = 1
  /\ result.value.search = Keys
  /\ \A k \in Keys : store[k] # 0
  /\ result.thrown
  /\ result.code = "BAD_PARAMETER"

(***************************************************************************)
(* Claims about the debug handler, checked under SpecDebug.                *)
(***************************************************************************)
\* the response the client gets: the last one generated
Answer == reply.generated[Len(reply.generated)]

Requested == reply.request # NoRequest

ClearAll ==
  reply.request.type = "DELETE_REQ" /\ reply.request.suffix = <<"failat">>

RemoveOne ==
  /\ reply.request.type = "DELETE_REQ"
  /\ Len(reply.request.suffix) = 2
  /\ reply.request.suffix[1] = "failat"

ArmOne ==
  /\ reply.request.type = "PUT"
  /\ Len(reply.request.suffix) = 2
  /\ reply.request.suffix[1] = "failat"

AnsweredTrue ==
  /\ Answer = [code |-> "OK", body |-> <<"true">>]
  /\ Len(reply.generated) = 1

\* C28: after any sequence of debug requests the set of armed fail-points is
\* what the requests made of it in order: PUT failat/<name> adds name, DELETE
\* failat/<name> removes name, DELETE failat empties the set, every other
\* request leaves it as it was; each of the three forms is answered with 200
\* and body true.
C28_FailPointsFollowRequests ==
  Requested =>
    /\ ClearAll => (failurePoints = {} /\ AnsweredTrue)
    /\ RemoveOne =>
         (failurePoints = reply.before \ {reply.request.suffix[2]} /\ AnsweredTrue)
    /\ ArmOne =>
         (failurePoints = reply.before \cup {reply.request.suffix[2]} /\ AnsweredTrue)
    /\ ~(ClearAll \/ RemoveOne \/ ArmOne) => failurePoints = reply.before

\* p2 was armed, then p1, then p2 was removed
C28_Witness ==
  /\ RemoveOne
  /\ reply.request.suffix[2] = "p2"
  /\ reply.before = {"p1", "p2"}
  /\ failurePoints = {"p1"}
  /\ AnsweredTrue

\* C29: every debug request that is not one of DELETE failat, DELETE
\* failat/<name>, PUT failat/<name> is answered with 501 Not Implemented,
\* never with 200, and leaves the set of armed fail-points unchanged.
C29_OtherRequestsNotImplemented ==
  (Requested /\ ~(ClearAll \/ RemoveOne \/ ArmOne)) =>
    /\ Answer.code = "NOT_IMPLEMENTED"
    /\ \A i \in 1..Len(reply.generated) : reply.generated[i].code # "OK"
    /\ failurePoints = reply.before

\* C29 holds for every request but PUT failat
C29_AllButPutWithoutName ==
  (Requested /\ ~(ClearAll \/ RemoveOne \/ ArmOne)
     /\ ~(reply.request.type = "PUT" /\ reply.request.suffix = <<"failat">>)) =>
    /\ Answer.code = "NOT_IMPLEMENTED"
    /\ Len(reply.generated) = 1
    /\ failurePoints = reply.before

(***************************************************************************)
(* Claims about the document identity codec, checked under SpecCodec.      *)
(***************************************************************************)
Called == codec.op \in {"decode", "encode"}

HasSlash(s) == \E i \in 1..Len(s) : s[i] = "/"

\* i is the position of the first '/' of s
FirstSlash(s, i) ==
  /\ i \in 1..Len(s)
  /\ s[i] = "/"
  /\ \A j \in 1..(i - 1) : s[j] # "/"

\* C25: extractKey returns, for an object, the value of its _key attribute
\* when that is a string and the empty string otherwise; for a string, the
\* whole string when it has no '/' and otherwise the suffix after the first
\* '/'; for every other value the empty string.
C25_ExtractKey ==
  Called =>
    LET slice == codec.slice IN
    IF slice.type = "object"
      THEN codec.key = (IF slice.key.type = "string" THEN slice.key.str ELSE <<>>)
    ELSE IF slice.type = "string"
      THEN IF HasSlash(slice.str)
             THEN \E i \in 1..Len(slice.str) :
                    /\ FirstSlash(slice.str, i)
                    /\ codec.key = SubSeq(slice.str, i + 1, Len(slice.str))
             ELSE codec.key = slice.str
    ELSE codec.key = <<>>

\* a string with two slashes: the key is what follows the first
C25_Witness ==
  /\ codec.op = "decode"
  /\ codec.slice = Str(<<"/", "/", "k">>)
  /\ codec.key = <<"/", "k">>

CustomId ==
  /\ Called
  /\ codec.slice.type = "object"
  /\ codec.slice.id.type = "custom"
  /\ codec.slice.id.head = CustomIdTag

NameOf(id) == getCollectionNameCluster(id.cid)

\* C26 as stated: for a slice whose _id is a custom-tagged 0xF3 blob,
\* extractIdString returns <collection name>/<_key>, the _key taken from
\* slice when slice has it and otherwise from base; when neither provides a
\* string _key it fails with ARANGO_DOCUMENT_TYPE_INVALID.
C26_KeyFromSliceThenBaseAsStated ==
  CustomId =>
    IF codec.slice.key.type = "string"
      THEN codec.id = StringResult(NameOf(codec.slice.id) \o <<"/">>
                                     \o codec.slice.key.str)
    ELSE IF codec.base.type = "object" /\ codec.base.key.type = "string"
      THEN codec.id = StringResult(NameOf(codec.slice.id) \o <<"/">>
                                     \o codec.base.key.str)
    ELSE codec.id = Failed("ARANGO_DOCUMENT_TYPE_INVALID")

\* C26 as amended: for an object whose _id is a custom-tagged 0xF3 blob,
\* extractIdString returns <collection name>/<_key> with the _key of the
\* object itself, and fails with ARANGO_DOCUMENT_TYPE_INVALID when the object
\* has no string _key, whatever base holds; base provides the _key only when
\* slice is itself the blob.  No key is ever fabricated.
C26_KeyFromSliceOnly ==
  /\ CustomId =>
       IF codec.slice.key.type = "string"
         THEN codec.id = StringResult(NameOf(codec.slice.id) \o <<"/">>
                                        \o codec.slice.key.str)
         ELSE codec.id = Failed("ARANGO_DOCUMENT_TYPE_INVALID")
  /\ (Called /\ codec.slice.type = "custom" /\ codec.slice.head = CustomIdTag) =>
       IF codec.base.type = "object" /\ codec.base.key.type = "string"
         THEN codec.id = StringResult(NameOf(codec.slice) \o <<"/">>
                                        \o codec.base.key.str)
         ELSE codec.id = Failed("ARANGO_DOCUMENT_TYPE_INVALID")

\* the object has no _key, base has one: no key is taken from base
C26_Witness ==
  /\ CustomId
  /\ codec.slice.id.cid = 2
  /\ codec.slice.key = VPackNone
  /\ codec.base = Doc(VPackNone, Str(<<"k">>))
  /\ codec.id = Failed("ARANGO_DOCUMENT_TYPE_INVALID")

\* C27: for every document path string <collection>/<key>, and for every
\* identity object buildDocumentIdentity writes for the collection and a
\* key, extractIdString equals the collection name, "/" and extractKey.
C27_IdIsCollectionSlashKey ==
  /\ (codec.op = "decode" /\ codec.slice.type = "string" /\ HasSlash(codec.slice.str)) =>
       \E i \in 1..Len(codec.slice.str) :
         /\ FirstSlash(codec.slice.str, i)
         /\ codec.id = StringResult(SubSeq(codec.slice.str, 1, i - 1) \o <<"/">>
                                      \o codec.key)
  /\ codec.op = "encode" =>
       /\ codec.key = codec.base.str
       /\ codec.id = StringResult(CollName \o <<"/">> \o codec.key)

C27_Witness ==
  /\ codec.op = "encode"
  /\ codec.base = Str(<<"k", "k">>)
  /\ codec.slice.rev = MaxRev
  /\ codec.key = <<"k", "k">>
  /\ codec.id = StringResult(CollName \o <<"/", "k", "k">>)

(***************************************************************************)
(* Claims about the write lock, checked under SpecLock.                    *)
(***************************************************************************)
Writing(f) == wlock.writer[f].pc = "write"

\* C30: every local document write (of insert, update, replace, remove and
\* each removal of truncate) runs while the write lock of the collection is
\* held once for the writing facade: the lock flag given to the engine is
\* set exactly when the facade does not hold the lock, two facades never
\* write at the same time, and a lock that is held is never taken again.
C30_WritesUnderWriteLock ==
  /\ \A f \in Writers :
       Writing(f) =>
         /\ wlock.holder = f
         /\ wlock.writer[f].flag = ~isLocked(wlock.writer[f])
  /\ \A f, g \in Writers : Writing(f) /\ Writing(g) => f = g
  /\ ~wlock.reacquired

\* facade 1 removes a document of truncate under the lock it took, and
\* facade 2, which does not hold it, waits with the lock flag set
C30_Witness ==
  /\ Writing(1)
  /\ wlock.writer[1].op = "truncate"
  /\ isLocked(wlock.writer[1])
  /\ ~wlock.writer[1].flag
  /\ wlock.writer[2].pc = "document"
  /\ wlock.writer[2].op = "insert"
  /\ wlock.writer[2].flag

(***************************************************************************)
(* Claims about the condition normaliser, checked under SpecSort.          *)
(***************************************************************************)
SortedTwice == plan.op = "sortOrs" /\ plan.applied = 2

\* C24: sortOrs is idempotent: applied a second time to the root and the
\* index handles an earlier successful application produced, it leaves the
\* sequence of clauses and the index handles unchanged.
C24_SortOrsIdempotent ==
  SortedTwice =>
    /\ plan.second.root = plan.first.root
    /\ plan.second.usedIndexes = plan.first.usedIndexes

\* what does hold: the second application keeps the clauses with their
\* handles, in some order
C24_SecondKeepsClauses ==
  SortedTwice =>
    /\ Len(plan.second.root) = Len(plan.first.root)
    /\ \A i \in 1..Len(plan.first.root) :
         \E j \in 1..Len(plan.second.root) :
           /\ plan.second.root[j] = plan.first.root[i]
           /\ plan.second.usedIndexes[j] = plan.first.usedIndexes[i]

(***************************************************************************)
(* Claims about the index planner, checked under SpecPlan.                 *)
(***************************************************************************)
Planned == plan.op = "getBestIndexHandlesForFilterCondition"

\* C22: whenever getBestIndexHandlesForFilterCondition returns
\* canUseForFilter = false, the list of index handles it leaves does not
\* consist of a single sparse index.
C22_NoSoleSparseIndex ==
  (Planned /\ ~plan.out.first) =>
    ~(/\ Len(plan.out.usedIndexes) = 1
      /\ plan.indexes[plan.out.usedIndexes[1]].sparse)

\* the flags the planner returns for the planned condition with these indexes
FlagsWith(indexes) ==
  LET chosen == getBestIndexHandles_chosen(indexes, plan.root, Reference,
                                          plan.sortCondition, plan.itemsInCollection) IN
  <<chosen.canUseForFilter, chosen.canUseForSort>>

\* index x, added after the others, is chosen for clause i of the root
Wins(x, i) ==
  LET c == findIndexHandleForAndNode_cost(x, plan.root[i], Reference, plan.sortCondition,
                                          plan.itemsInCollection)
      best == findIndexHandleForAndNode_best(plan.indexes, plan.root[i], Reference,
                plan.sortCondition, plan.itemsInCollection, 1, NoBest) IN
  /\ c.supportsFilter \/ c.supportsSort
  /\ best.index = 0 \/ c.totalCost < best.cost

\* C23 as stated: for a fixed root, sort condition and item count, adding
\* one more index to the candidates never turns canUseForFilter or
\* canUseForSort from true to false.
C23_AddingAnIndexNeverWorsensAsStated ==
  Planned =>
    \A x \in IndexKinds :
      /\ plan.out.first => FlagsWith(Append(plan.indexes, x))[1]
      /\ plan.out.second => FlagsWith(Append(plan.indexes, x))[2]

\* C23 as amended: an index added after the others leaves both flags as
\* they were whenever it wins no clause of the root: for every clause it
\* supports neither the filter nor the sort, or its total cost is not below
\* the cost of the index chosen so far.
C23_AddedIndexThatWinsNoClause ==
  Planned =>
    \A x \in IndexKinds :
      (\A i \in 1..Len(plan.root) : ~Wins(x, i))
        => FlagsWith(Append(plan.indexes, x)) = <<plan.out.first, plan.out.second>>

\* both flags are true, and an index that supports the filter of a clause
\* at the cost of the chosen one is added: the flags stay
C23_Witness ==
  /\ Planned
  /\ plan.out.first
  /\ plan.out.second
  /\ Len(plan.root) = 2
  /\ \E x \in IndexKinds :
       /\ \A i \in 1..Len(plan.root) : ~Wins(x, i)
       /\ \E i \in 1..Len(plan.root) :
            LET c == findIndexHandleForAndNode_cost(x, plan.root[i], Reference,
                       plan.sortCondition, plan.itemsInCollection) IN
            /\ c.supportsFilter
            /\ ~c.supportsSort
            /\ c.totalCost = findIndexHandleForAndNode_best(plan.indexes, plan.root[i],
                               Reference, plan.sortCondition, plan.itemsInCollection,
                               1, NoBest).cost

(***************************************************************************)
(* Claims about embedded facades of a coordinator transaction, checked     *)
(* under SpecLife.                                                         *)
(***************************************************************************)
Bookends == {"begin", "commit", "abort"}

\* the call just made was a begin, commit or abort of an embedded facade of
\* a non-real transaction
EmbeddedBookend == ~isReal /\ call'.op \in Bookends /\ facades[call'.f].nestingLevel > 0

\* what begin, commit and abort test before they look at _isReal
BookendPasses ==
  IF call'.op = "begin"
    THEN facades[call'.f].setupState = "NO_ERROR"
    ELSE trx.status = "RUNNING"

\* C40 as stated: on a non-real transaction, begin, commit and abort of an
\* embedded facade return NO_ERROR and leave the status of the shared handle
\* unchanged.
C40_EmbeddedBookendsAsStated ==
  [][EmbeddedBookend => (call'.res = "NO_ERROR" /\ trx' = trx)]_vars

\* C40 as amended: on a non-real transaction, begin, commit and abort of an
\* embedded facade never change the shared handle; they return NO_ERROR when
\* the facade's setup succeeded (begin) or the handle is RUNNING (commit,
\* abort), the setup error or TRANSACTION_INTERNAL otherwise; a begin,
\* commit or abort that changes the handle is one of the top-level facade.
C40_EmbeddedBookendsKeepStatus ==
  [][/\ EmbeddedBookend =>
          /\ trx' = trx
          /\ call'.res = IF BookendPasses THEN "NO_ERROR"
                         ELSE IF call'.op = "begin" THEN facades[call'.f].setupState
                         ELSE "TRANSACTION_INTERNAL"
     /\ (~isReal /\ call'.op \in Bookends /\ trx' # trx)
          => facades[call'.f].nestingLevel = 0]_vars

\* an embedded facade of a running coordinator transaction has committed:
\* the call returned NO_ERROR and the handle is still RUNNING
C40_Witness ==
  /\ ~isReal
  /\ call.op = "commit"
  /\ call.f > 1
  /\ Len(facades) >= call.f
  /\ facades[call.f].nestingLevel > 0
  /\ call.res = "NO_ERROR"
  /\ trx.status = "RUNNING"

(***************************************************************************)
(* Claims about the ditch of the local operations, checked under SpecCrud. *)
(***************************************************************************)
DocumentAccesses == {"read", "insert", "update", "replace", "remove"}

\* C31: every local CRUD operation orders a ditch on the collection before
\* it first reads or writes one of the collection's documents: each call of
\* the document collection's read, insert, update, replace or remove comes
\* after an orderDitch of the same operation.
C31_DitchBeforeFirstAccess ==
  \A i \in 1..Len(result.events) :
    result.events[i].e \in DocumentAccesses
      => \E j \in 1..(i - 1) : result.events[j].e = "ditch"

(***************************************************************************)
(* Claims about the choice of an index for one AND clause, checked under   *)
(* SpecPlan for every clause of the root the planner was called with.      *)
(***************************************************************************)
\* what the index at position k supports and costs for clause i
CostOf(k, i) ==
  findIndexHandleForAndNode_cost(plan.indexes[k], plan.root[i], Reference,
                                 plan.sortCondition, plan.itemsInCollection)

\* the indexes that support the filter or the sort of clause i
Candidates(i) ==
  {k \in 1..Len(plan.indexes) : CostOf(k, i).supportsFilter \/ CostOf(k, i).supportsSort}

\* the candidates of minimal total cost
Cheapest(i) ==
  {k \in Candidates(i) : \A j \in Candidates(i) : CostOf(k, i).totalCost <= CostOf(j, i).totalCost}

\* findIndexHandleForAndNode for clause i, called with one handle in the vector
ForClause(i) ==
  findIndexHandleForAndNode(plan.indexes, plan.root[i], Reference, plan.sortCondition,
                            plan.itemsInCollection, <<1>>, FALSE)

\* C32: findIndexHandleForAndNode selects, among the indexes that support
\* the filter or the sort, the one of minimal filterCost + sortCost, the
\* first encountered winning ties; it appends exactly that index's handle,
\* sets isSparse from it and returns its (supportsFilter, supportsSort);
\* when no index supports either it returns (false, false) and appends no
\* handle.
C32_CheapestCandidateFirstOnTies ==
  Planned =>
    \A i \in 1..Len(plan.root) :
      IF Candidates(i) = {}
        THEN /\ ~ForClause(i).first
             /\ ~ForClause(i).second
             /\ ForClause(i).usedIndexes = <<1>>
        ELSE LET k == CHOOSE c \in Cheapest(i) : \A j \in Cheapest(i) : c <= j IN
             /\ ForClause(i).usedIndexes = <<1, k>>
             /\ ForClause(i).isSparse = plan.indexes[k].sparse
             /\ ForClause(i).first = CostOf(k, i).supportsFilter
             /\ ForClause(i).second = CostOf(k, i).supportsSort

\* two different indexes tie at the minimal cost for a clause and the first
\* of them was chosen; another clause has no candidate at all
C32_Witness ==
  /\ Planned
  /\ \E i \in 1..Len(plan.root) :
       /\ Cardinality(Cheapest(i)) = 2
       /\ plan.indexes[1] # plan.indexes[2]
       /\ ForClause(i).usedIndexes = <<1, 1>>
  /\ \E i \in 1..Len(plan.root) :
       /\ Candidates(i) = {}
       /\ ForClause(i).usedIndexes = <<1>>

(***************************************************************************)
(* Claims about the planner's result for a whole root, checked under       *)
(* SpecPlan.                                                               *)
(***************************************************************************)
\* the clause's index serves the sort and not the filter
SortOnly(i) == ForClause(i).second /\ ~ForClause(i).first

\* the first clause whose index serves the sort only
FirstSortOnly == CHOOSE i \in 1..Len(plan.root) : SortOnly(i) /\ \A j \in 1..(i - 1) : ~SortOnly(j)

\* C33: when the result for some AND clause is (supportsFilter = false,
\* supportsSort = true), the planner stops at that clause and discards the
\* indexes chosen for the other clauses: the handles returned are that
\* clause's sort index alone, or none when that index is sparse, and the
\* pair returned is (false, the handles are not empty).
C33_SortOnlyIndexAlone ==
  (Planned /\ \E i \in 1..Len(plan.root) : SortOnly(i)) =>
    LET sortIndex == ForClause(FirstSortOnly).usedIndexes[2] IN
    /\ plan.out.usedIndexes =
         IF plan.indexes[sortIndex].sparse THEN <<>> ELSE <<sortIndex>>
    /\ ~plan.out.first
    /\ plan.out.second = (plan.out.usedIndexes # <<>>)
    /\ ~plan.out.isSorted

\* the second clause's index serves the sort only and is not sparse, and
\* another index had been chosen for the first clause
C33_Witness ==
  /\ Planned
  /\ Len(plan.root) = 2
  /\ ~SortOnly(1)
  /\ SortOnly(2)
  /\ ForClause(1).usedIndexes = <<1, 1>>
  /\ ForClause(2).usedIndexes = <<1, 2>>
  /\ ~plan.indexes[2].sparse
  /\ plan.out.usedIndexes = <<2>>
  /\ plan.out.second

\* C39: getBestIndexHandlesForFilterCondition never replaces a member of
\* the OR root by a null node: after it returns, every member of the root
\* is an AND clause of the input or the clause an index of the collection
\* specialised from one, also for a clause for which no index qualifies.
C39_NoNullMember ==
  Planned =>
    \A i \in 1..Len(plan.out.root) :
      /\ plan.out.root[i] # NullAnd
      /\ \E j \in 1..Len(plan.root) :
           \/ plan.out.root[i] = plan.root[j]
           \/ \E k \in 1..Len(plan.indexes) :
                plan.out.root[i] = specializeCondition(plan.indexes[k], plan.root[j], Reference)

(***************************************************************************)
(* Claims about sortOrs, checked under SpecSort on the first application:  *)
(* plan.root and plan.usedIndexes are what sortOrs was given, plan.first   *)
(* what it returned and left.                                              *)
(***************************************************************************)
SortedOnce == plan.op = "sortOrs" /\ plan.applied = 1

IsAttribute(node) == node.kind \in {"ATTRIBUTE_ACCESS", "EXPANSION"}

\* the clause holds exactly one operand, a binary comparison other than !=
\* and NOT IN
SingleComparison(sub) ==
  /\ Len(sub.members) = 1
  /\ isComparisonOperator(sub.members[1])
  /\ sub.members[1].type \notin {"NE", "NIN"}

\* the attribute side and the constant side of a comparison
AttributeSide(op) == IF IsAttribute(op.members[1]) THEN op.members[1] ELSE op.members[2]

ConstantSide(op) == IF IsAttribute(op.members[1]) THEN op.members[2] ELSE op.members[1]

\* the constant side is not constant, or the right-hand side of an IN is
\* not an array
BadConstant(op) ==
  \/ ~isConstant(ConstantSide(op))
  \/ op.type = "IN" /\ ~isArray(op.members[2])

\* two clauses on different variables or attribute paths
DifferentAttributes(root) ==
  \E i, j \in 1..Len(root) :
    /\ SingleComparison(root[i]) /\ SingleComparison(root[j])
    /\ IsAttribute(AttributeSide(root[i].members[1]))
    /\ IsAttribute(AttributeSide(root[j].members[1]))
    /\ \/ AttributeSide(root[i].members[1]).var # AttributeSide(root[j].members[1]).var
       \/ AttributeSide(root[i].members[1]).attr # AttributeSide(root[j].members[1]).attr

\* a reason for which sortOrs is said to return false
Rejected(root, usedIndexes) ==
  \/ \E i \in 1..Len(root) : ~SingleComparison(root[i])
  \/ \E i \in 1..Len(root) : SingleComparison(root[i]) /\ BadConstant(root[i].members[1])
  \/ DifferentAttributes(root)
  \/ Len(root) # Len(usedIndexes)

\* an IN whose attribute is on the right: 1 IN d.a
AttributeRightIn(sub) ==
  /\ SingleComparison(sub)
  /\ sub.members[1].type = "IN"
  /\ IsAttribute(sub.members[1].members[2])

\* C34: on a root of at least two members (below which there is nothing to
\* sort), sortOrs returns false whenever some OR member does not hold
\* exactly one operand, the operand is not a binary comparison, the
\* operator is != or NOT IN, the constant side is not constant or the
\* right-hand side of an IN is not an array, two clauses refer to
\* different variables or attribute paths, or the number of OR members
\* differs from the number of index handles.
C34_RejectsUnsortableRoots ==
  (SortedOnce /\ Len(plan.root) >= 2 /\ Rejected(plan.root, plan.usedIndexes))
    => ~plan.first.res

\* what does hold: the roots sortOrs accepts against the statement all hold
\* an IN with the attribute on its right
C34_RejectsAllButAttributeRightIn ==
  (SortedOnce /\ Len(plan.root) >= 2 /\ Rejected(plan.root, plan.usedIndexes)
     /\ plan.first.res)
    => \E i \in 1..Len(plan.root) : AttributeRightIn(plan.root[i])

\* the IN clauses of a root whose clauses are single comparisons
InClauses(root) == {i \in 1..Len(root) : root[i].members[1].type = "IN"}

\* the values of the array of an IN clause
ArrayItems(sub) ==
  {ConstantSide(sub.members[1]).items[k] :
     k \in 1..Len(ConstantSide(sub.members[1]).items)}

\* sortOrs returned true on a root with several IN clauses
SeveralInsSorted ==
  /\ SortedOnce
  /\ plan.first.res
  /\ Len(plan.root) >= 2
  /\ \A i \in 1..Len(plan.root) : SingleComparison(plan.root[i])
  /\ Cardinality(InClauses(plan.root)) >= 2

\* C35: after sortOrs returns true on a root with several IN clauses, the
\* root holds exactly one IN clause, the first IN clause of the input, whose
\* array is the union of the arrays of all IN clauses of the input; the
\* other IN clauses are absent, and every non-IN clause of the input is
\* still present.
C35_InClausesMergedIntoFirst ==
  SeveralInsSorted =>
    LET first == CHOOSE i \in InClauses(plan.root) : \A j \in InClauses(plan.root) : i <= j IN
    /\ Cardinality(InClauses(plan.first.root)) = 1
    /\ \A i \in InClauses(plan.first.root) :
         /\ plan.first.usedIndexes[i] = first
         /\ AttributeSide(plan.first.root[i].members[1])
              = AttributeSide(plan.root[first].members[1])
         /\ isArray(ConstantSide(plan.first.root[i].members[1]))
         /\ ArrayItems(plan.first.root[i])
              = UNION {ArrayItems(plan.root[j]) : j \in InClauses(plan.root)}
    /\ \A j \in (1..Len(plan.root)) \ InClauses(plan.root) :
         \E i \in 1..Len(plan.first.root) :
           /\ plan.first.root[i] = plan.root[j]
           /\ plan.first.usedIndexes[i] = j

\* what does hold: the statement, when every IN clause has the attribute on
\* its left and some array is not empty
C35_MergedWhenAttributeLeft ==
  (/\ SeveralInsSorted
   /\ \A j \in InClauses(plan.root) : ~AttributeRightIn(plan.root[j])
   /\ \E j \in InClauses(plan.root) : ArrayItems(plan.root[j]) # {})
    => C35_InClausesMergedIntoFirst

\* the condition part of a clause that holds a single comparison
PartOf(sub) ==
  LET op == sub.members[1]
      attribute == AttributeSide(op) IN
  ConditionPart(attribute.var, attribute.attr, op,
                IF IsAttribute(op.members[1]) THEN "ATTRIBUTE_LEFT" ELSE "ATTRIBUTE_RIGHT", 0)

\* clause p comes before clause q: by lower-bound value, no lower bound
\* before a lower bound, an inclusive bound before an exclusive one
ComesBefore(p, q) ==
  LET lp == lowerBound(PartOf(p))
      lq == lowerBound(PartOf(q)) IN
  IF lp = NullNode /\ lq # NullNode THEN TRUE
  ELSE IF lp # NullNode /\ lq = NullNode THEN FALSE
  ELSE IF lp # NullNode /\ lq # NullNode /\ CompareAstNodes(lp, lq) # 0
    THEN CompareAstNodes(lp, lq) < 0
  ELSE isLowerInclusive(PartOf(p)) /\ ~isLowerInclusive(PartOf(q))

SortedTrue == SortedOnce /\ plan.first.res /\ Len(plan.root) >= 2

\* the members sortOrs left are in non-decreasing order
OrderedByLowerBound ==
  \A i, j \in 1..Len(plan.first.root) :
    i < j => ~ComesBefore(plan.first.root[j], plan.first.root[i])

\* members that compare equal are in the order of the input
EqualKeepInputOrder ==
  \A i, j \in 1..Len(plan.first.root) :
    (/\ i < j
     /\ ~ComesBefore(plan.first.root[i], plan.first.root[j])
     /\ ~ComesBefore(plan.first.root[j], plan.first.root[i]))
      => plan.first.usedIndexes[i] < plan.first.usedIndexes[j]

\* C36: after sortOrs returns true, the OR members are in non-decreasing
\* order of lower-bound value, a clause without a lower bound before those
\* that have one and an inclusive bound before an exclusive bound of the
\* same value; the sort is stable: clauses that compare equal keep their
\* relative input order.
C36_SortedAndStable ==
  SortedTrue => (OrderedByLowerBound /\ EqualKeepInputOrder)

\* what does hold: the order, when no IN has its attribute on the right
C36_SortedByLowerBound ==
  (SortedTrue /\ \A i \in 1..Len(plan.root) : ~AttributeRightIn(plan.root[i]))
    => OrderedByLowerBound

\* C37: whenever sortOrs returns false it has changed neither the root (its
\* members, their order, the arrays of its IN clauses) nor the index
\* handles: every rejection comes before the first change.
C37_FalseLeavesRootAndHandles ==
  (SortedOnce /\ ~plan.first.res) =>
    /\ plan.first.root = plan.root
    /\ plan.first.usedIndexes = plan.usedIndexes

\* rejected for a clause on another attribute, after two IN clauses that a
\* merge would have changed
C37_Witness ==
  /\ SortedOnce
  /\ ~plan.first.res
  /\ Len(plan.root) = 3
  /\ Len(plan.usedIndexes) = 3
  /\ \A i \in 1..3 : SingleComparison(plan.root[i])
  /\ InClauses(plan.root) = {1, 2}
  /\ ArrayItems(plan.root[1]) # ArrayItems(plan.root[2])
  /\ \A i \in 1..2 : ~AttributeRightIn(plan.root[i])
  /\ AttributeSide(plan.root[3].members[1]).attr # AttributeSide(plan.root[1].members[1]).attr
  /\ isConstant(ConstantSide(plan.root[3].members[1]))
  /\ plan.first.root = plan.root

\* the clause at position i is the one its handle was paired with, up to
\* the array of an IN clause, which the merge replaces
PairedAsBefore(i) ==
  LET h == plan.first.usedIndexes[i] IN
  /\ h \in 1..Len(plan.root)
  /\ plan.usedIndexes[h] = h
  /\ IF plan.root[h].members[1].type = "IN"
       THEN changeMember(<<plan.first.root[i]>>, 1, NullNode)
              = changeMember(<<plan.root[h]>>, 1, NullNode)
       ELSE plan.first.root[i] = plan.root[h]

\* C38: after sortOrs returns true on a root with at least two members, the
\* root has as many members as there are index handles, and the handle at
\* position i is the one that was paired with the clause now at position i
\* before the call: no clause is separated from its index.
C38_ClausesKeepTheirHandles ==
  SortedTrue =>
    /\ Len(plan.first.root) = Len(plan.first.usedIndexes)
    /\ \A i \in 1..Len(plan.first.root) : PairedAsBefore(i)
    /\ \A i, j \in 1..Len(plan.first.root) :
         plan.first.usedIndexes[i] = plan.first.usedIndexes[j] => i = j

\* three different clauses came in; an emptied IN clause was dropped and the
\* two that are left changed places, each with its handle
C38_Witness ==
  /\ SortedTrue
  /\ Len(plan.root) = 3
  /\ \A i, j \in 1..3 : plan.root[i] = plan.root[j] => i = j
  /\ Len(plan.first.root) = 2
  /\ plan.first.usedIndexes[1] > plan.first.usedIndexes[2]
  /\ plan.first.root[1] = plan.root[plan.first.usedIndexes[1]]
  /\ plan.first.root[1] # plan.first.root[2]

====
